---- MODULE Spec2Model ----
(***************************************************************************)
(* Helm-managed component registry of the opendatahub operator:            *)
(* the catalog (Register / GetComponent / ListComponents / Render), the    *)
(* three-tier value merge (MergeValues over helm's CoalesceTables) and     *)
(* the chart loader.                                                       *)
(*                                                                         *)
(* Go maps are reference values.  A configuration tree is therefore kept   *)
(* as a set of map objects in `heap`; a nested mapping is a reference to   *)
(* another object.  CoalesceTables writes into its first argument, so the  *)
(* model tracks which object every write lands in.                         *)
(***************************************************************************)
EXTENDS Integers, Sequences, FiniteSets, TLC

VARIABLES
    components,   \* r.components: name -> *HelmManagedComponent
    heap,         \* the map objects reachable from the registrations
    loaded,       \* per registration: its trees as LoadChart left them
    last,         \* the call that has just returned, with what it returned
    prev,         \* an earlier Render kept for comparison
    th,           \* the Render calls in flight, one record per worker
    crashed,      \* the runtime has stopped the process
    ctrl,         \* the controller the watches are installed on
    activated,    \* <<component, descriptor>> pairs that have become active
    crds,         \* the resource-type definitions created in the cluster
    phase,        \* how far the operator process has come
    locks,        \* r.mu and each component's watchesMutex: writer and readers
    cluster       \* the Langfuse resource in the cluster: manifests applied, Ready

vars == <<components, heap, loaded, last, prev, th, crashed, ctrl, activated, crds, phase, locks,
          cluster>>

\* the part of the state only the operator process and the watch calls touch
opVars == <<ctrl, activated, crds, phase, locks, cluster>>

----------------------------------------------------------------------------
(* Bounds of the model *)

\* length of the sequences chart defaults carry
MaxListLen == 2
\* number of distinct component specs handed to Render
NumSpecs == 2
\* number of reconciliation workers calling Render at once
NumWorkers == 2

----------------------------------------------------------------------------
(* Values of a chartutil.Values tree *)

\* reference to no map object (a nil map, or the m field of a non-mapping)
NoObj == [o |-> <<>>, p |-> <<>>]

\* the map object created for path p of the tree owned by o
Obj(o, p) == [o |-> o, p |-> p]

\* a scalar (string, number, boolean)
Sc(n) == [t |-> "s", s |-> n, l |-> <<>>, m |-> NoObj]
\* the absent marker (nil / YAML null)
NilV == [t |-> "nil", s |-> 0, l |-> <<>>, m |-> NoObj]
\* an ordered sequence ([]interface{})
Li(q) == [t |-> "l", s |-> 0, l |-> q, m |-> NoObj]
\* a nested mapping (map[string]interface{}), by reference
Tb(ref) == [t |-> "m", s |-> 0, l |-> <<>>, m |-> ref]
\* a nested mapping in the flat, reference-free form of a tree
MapMark == Tb(NoObj)

\* istable of helm's coalesce.go: the value is a map[string]interface{}
istable(v) == v.t = "m"

\* f with key k bound to v (dst[key] = val)
MapPut(f, k, v) == [x \in DOMAIN f \cup {k} |-> IF x = k THEN v ELSE f[x]]
\* f without key k (delete(dst, key))
MapDelete(f, k) == [x \in DOMAIN f \ {k} |-> f[x]]

(* A tree in flat form is the set of <<path, value>> of all its entries,    *)
(* a nested mapping being entered as <<path, MapMark>>.  Two trees are      *)
(* structurally equal iff their flat forms are equal.                       *)

\* the paths of the mappings of the flat tree f, the root included
MapPaths(f) == {<<>>} \cup {e[1] : e \in {e \in f : istable(e[2])}}

\* the entries of f directly under the mapping at path p
Children(f, p) == {e \in f : Len(e[1]) = Len(p) + 1 /\ SubSeq(e[1], 1, Len(p)) = p}

\* the map object for path p of flat tree f when owned by o
LoadObj(f, o, p) ==
    LET ch == Children(f, p)
        keys == {e[1][Len(e[1])] : e \in ch}
        ent(k) == CHOOSE e \in ch : e[1][Len(e[1])] = k
    IN [k \in keys |-> IF istable(ent(k)[2]) THEN Tb(Obj(o, p \o <<k>>)) ELSE ent(k)[2]]

\* the objects that hold flat tree f, owned by o (what yaml.Unmarshal or a
\* map literal builds: one fresh map per mapping)
LoadTree(f, o) == [r \in {Obj(o, p) : p \in MapPaths(f)} |-> LoadObj(f, o, r.p)]

\* heap h extended with the objects of g
HeapAdd(h, g) == [r \in DOMAIN h \cup DOMAIN g |-> IF r \in DOMAIN g THEN g[r] ELSE h[r]]

RECURSIVE FlatFrom(_, _, _)
\* the flat form of the tree that object `ref` roots in heap h, under `prefix`
FlatFrom(h, ref, prefix) ==
    UNION { LET v == h[ref][k]
                p == prefix \o <<k>>
            IN IF istable(v) THEN {<<p, MapMark>>} \cup FlatFrom(h, v.m, p)
                             ELSE {<<p, v>>}
            : k \in DOMAIN h[ref] }

\* the tree a (possibly nil) map reference denotes; a nil map reads as empty
Flat(h, ref) == IF ref = NoObj THEN {} ELSE FlatFrom(h, ref, <<>>)

\* len(m) of a (possibly nil) map
MapLen(h, ref) == IF ref = NoObj THEN 0 ELSE Cardinality(DOMAIN h[ref])

----------------------------------------------------------------------------
(* helm.sh/helm/v3/pkg/chartutil.CoalesceTables(dst, src), as MergeValues   *)
(* calls it: src is merged INTO dst, dst is authoritative, dst is returned. *)

RECURSIVE coalesceTablesFullKey(_, _, _)
RECURSIVE CoalesceKeys(_, _, _, _)

\* a merge that does not descend into nested mappings: dst keeps its own
\* mapping untouched
CoalesceKeyShallow(h, dst, src, key) ==
    IF key \notin DOMAIN h[src] THEN h
    ELSE LET val == h[src][key]
             ok == key \in DOMAIN h[dst]
         IN IF ok /\ h[dst][key].t = "nil"
              THEN [h EXCEPT ![dst] = MapDelete(@, key)]
            ELSE IF ~ok
              THEN [h EXCEPT ![dst] = MapPut(@, key, val)]
            ELSE h

\* a merge that appends the lower sequence to the higher one
CoalesceKeyAppend(h, dst, src, key) ==
    IF key \notin DOMAIN h[src] THEN h
    ELSE LET val == h[src][key]
             ok == key \in DOMAIN h[dst]
         IN IF ok /\ h[dst][key].t = "nil"
              THEN [h EXCEPT ![dst] = MapDelete(@, key)]
            ELSE IF ~ok
              THEN [h EXCEPT ![dst] = MapPut(@, key, val)]
            ELSE IF istable(val)
              THEN IF istable(h[dst][key])
                     THEN coalesceTablesFullKey(h, h[dst][key].m, val.m)
                     ELSE h
            ELSE IF val.t = "l" /\ h[dst][key].t = "l"
              THEN [h EXCEPT ![dst] = MapPut(@, key, Li(h[dst][key].l \o val.l))]
            ELSE h

\* a merge in which a mapping always displaces a non-mapping
CoalesceKeyTableWins(h, dst, src, key) ==
    IF key \notin DOMAIN h[src] THEN h
    ELSE LET val == h[src][key]
             ok == key \in DOMAIN h[dst]
         IN IF ok /\ h[dst][key].t = "nil"
              THEN [h EXCEPT ![dst] = MapDelete(@, key)]
            ELSE IF ~ok
              THEN [h EXCEPT ![dst] = MapPut(@, key, val)]
            ELSE IF istable(val)
              THEN IF istable(h[dst][key])
                     THEN coalesceTablesFullKey(h, h[dst][key].m, val.m)
                     ELSE [h EXCEPT ![dst] = MapPut(@, key, val)]
            ELSE h

\* one iteration of `for key, val := range src` on the heap h
CoalesceKey(h, dst, src, key) ==
    IF key \notin DOMAIN h[src] THEN h
    ELSE LET val == h[src][key]
             ok == key \in DOMAIN h[dst]
         IN IF ok /\ h[dst][key].t = "nil"
              THEN [h EXCEPT ![dst] = MapDelete(@, key)]
            ELSE IF ~ok
              THEN [h EXCEPT ![dst] = MapPut(@, key, val)]
            ELSE IF istable(val)
              THEN IF istable(h[dst][key])
                     THEN coalesceTablesFullKey(h, h[dst][key].m, val.m)
                     ELSE h    \* warning: cannot overwrite table with non table
            ELSE h             \* dst keeps its value

\* the range loop over the keys still to visit
CoalesceKeys(h, dst, src, keys) ==
    IF keys = {} THEN h
    ELSE LET key == CHOOSE k \in keys : TRUE
         IN CoalesceKeys(CoalesceKey(h, dst, src, key), dst, src, keys \ {key})

\* the heap after merging src into dst
coalesceTablesFullKey(h, dst, src) ==
    IF src = NoObj \/ dst = NoObj THEN h
    ELSE CoalesceKeys(h, dst, src, DOMAIN h[src])

\* the map CoalesceTables returns
CoalesceResult(dst, src) ==
    IF src = NoObj THEN dst ELSE IF dst = NoObj THEN src ELSE dst

CoalesceTables(h, dst, src) ==
    [h |-> coalesceTablesFullKey(h, dst, src), ref |-> CoalesceResult(dst, src)]

----------------------------------------------------------------------------
(* The component and its value merge *)

\* c.Chart of a component whose chart is not loaded
NoChart == ""

\* a merge that has nothing to return without a chart
MergeValuesNilWithoutChart(h, c, componentValues) ==
    IF c.Chart = NoChart THEN [h |-> h, ref |-> NoObj, step2 |-> NoObj, h1 |-> h]
    ELSE
      LET result0 == c.Values
          s2 == IF c.RHOAIValues # NoObj /\ MapLen(h, c.RHOAIValues) > 0
                  THEN CoalesceTables(h, c.RHOAIValues, result0)
                  ELSE [h |-> h, ref |-> result0]
          s3 == IF componentValues # NoObj /\ MapLen(s2.h, componentValues) > 0
                  THEN CoalesceTables(s2.h, componentValues, s2.ref)
                  ELSE s2
      IN [h |-> s3.h, ref |-> s3.ref, step2 |-> s2.ref, h1 |-> s2.h]

\* a merge whose second fold lets the lower tier win
MergeValuesSwapped(h, c, componentValues) ==
    IF c.Chart = NoChart THEN [h |-> h, ref |-> componentValues, step2 |-> NoObj, h1 |-> h]
    ELSE
      LET result0 == c.Values
          s2 == IF c.RHOAIValues # NoObj /\ MapLen(h, c.RHOAIValues) > 0
                  THEN CoalesceTables(h, c.RHOAIValues, result0)
                  ELSE [h |-> h, ref |-> result0]
          s3 == IF componentValues # NoObj /\ MapLen(s2.h, componentValues) > 0
                  THEN CoalesceTables(s2.h, s2.ref, componentValues)
                  ELSE s2
      IN [h |-> s3.h, ref |-> s3.ref, step2 |-> s2.ref, h1 |-> s2.h]

\* `if c.RHOAIValues != nil && len(c.RHOAIValues) > 0`
OverridesApply(h, c) == c.RHOAIValues # NoObj /\ MapLen(h, c.RHOAIValues) > 0

\* step 3 of MergeValues: the component values, when there are any, are
\* coalesced over `result`
ComponentFold(h, result, componentValues) ==
    IF componentValues # NoObj /\ MapLen(h, componentValues) > 0
      THEN CoalesceTables(h, componentValues, result)
      ELSE [h |-> h, ref |-> result]

\* src/unnamed/part_002: c.MergeValues(componentValues) on heap h.
\* c.Values is c.Chart.Values; the result is a map reference and the heap
\* as the two CoalesceTables calls leave it (step2, h1: after the first).
MergeValues(h, c, componentValues) ==
    IF c.Chart = NoChart THEN [h |-> h, ref |-> componentValues, step2 |-> NoObj, h1 |-> h]
    ELSE
      LET result0 == c.Values
          s2 == IF OverridesApply(h, c)
                  THEN CoalesceTables(h, c.RHOAIValues, result0)
                  ELSE [h |-> h, ref |-> result0]
          s3 == ComponentFold(s2.h, s2.ref, componentValues)
      IN [h |-> s3.h, ref |-> s3.ref, step2 |-> s2.ref, h1 |-> s2.h]

----------------------------------------------------------------------------
(* Bounded families of trees, one per tier.  Every mapping has the keys     *)
(* "a" and "b"; "a" may hold a scalar, the absent marker, a sequence or a   *)
(* nested mapping, "b" is a scalar sibling.  Scalars carry the number of    *)
(* the tier they come from: 1 chart defaults, 2 platform, 3 component.      *)

\* the sequence tier t supplies: chart defaults carry the longest
SeqOfTier(t) == [i \in 1..(IF t = 1 THEN MaxListLen ELSE 1) |-> t]

\* the non-mapping values tier t can put under key "a"
TierLeaves(t) == {Sc(t), NilV, Li(SeqOfTier(t))}

RECURSIVE TierMaps(_, _, _)
\* the contents a mapping at path p can have in tier t with d levels left
TierMaps(p, d, t) ==
    LET pa == p \o <<"a">>
        pb == p \o <<"b">>
        aChoices == {{}} \cup {{<<pa, v>>} : v \in TierLeaves(t)}
                    \cup (IF d > 1
                            THEN {{<<pa, MapMark>>} \cup c : c \in TierMaps(pa, d - 1, t)}
                            ELSE {})
        bChoices == {{}, {<<pb, Sc(t)>>}}
    IN {ca \cup cb : ca \in aChoices, cb \in bChoices}

\* nesting depth of the enumerated trees (a.a is the deepest key)
TreeDepth == 2

\* the trees of tier t
TierTrees(t) == TierMaps(<<>>, TreeDepth, t)

----------------------------------------------------------------------------
(* State shared by the specifications *)

\* no call has returned, or its result has been dropped by the caller
NoCall == [op |-> "none"]

\* NewMockController(): no watch installed, no predicate recorded
NoController == [watches |-> <<>>, predicates |-> <<>>]

\* no operator process around the registry: the calls are made directly
NoPhase == [pc |-> "direct"]

\* a sync.RWMutex nobody holds: no writer (0), no readers
LockFree == [w |-> 0, r |-> {}]

\* r.mu of the registry and c.watchesMutex of the component registered as n
CatalogLock == <<"mu">>
LockIds == {CatalogLock, <<"watchesMutex", "c1">>, <<"watchesMutex", "c2">>}
NoLocks == [L \in LockIds |-> LockFree]

\* the Langfuse resource as the API server holds it before any pass: nothing
\* applied for it, no Ready condition
NoCondition == [status |-> "", reason |-> ""]
NoCluster == [applied |-> {}, ready |-> NoCondition]

NoOperator ==
    /\ ctrl = NoController
    /\ activated = {}
    /\ crds = {}
    /\ phase = NoPhase
    /\ locks = NoLocks
    /\ cluster = NoCluster

\* no worker has a Render in flight
Workers == 1..NumWorkers
IdleWorker == [pc |-> "idle"]

\* the objects of the heap that registrations own (component values of a
\* finished call are garbage)
Persistent(h, keep) == [r \in keep |-> h[r]]

\* owner tags of the trees of component `name` and of a call's own values
DOwner(name) == <<"D", name>>
OOwner(name) == <<"O", name>>
COwner(w) == <<"C", w>>

----------------------------------------------------------------------------
(* MergeValues on a component built directly, as the contract tests of      *)
(* src/unnamed/part_003 build it: chart defaults D and platform overrides O *)
(* are drawn from the bounded families, and every call draws its component  *)
(* values C.  The component lives on between calls, as a registration does. *)

TestName == "test-chart"

\* &HelmManagedComponent{ChartName, Chart: {DefaultValues: D}, RHOAIValues: O}
TestComponent ==
    [ChartName |-> TestName, ValuesGenerator |-> "", Watches |-> <<>>,
     Chart |-> TestName, Values |-> Obj(DOwner(TestName), <<>>),
     RHOAIValues |-> Obj(OOwner(TestName), <<>>), pendingWatches |-> {}]

MergeInit ==
    /\ \E D \in TierTrees(1), O \in TierTrees(2) :
         /\ heap = HeapAdd(LoadTree(D, DOwner(TestName)), LoadTree(O, OOwner(TestName)))
         /\ loaded = [n \in {TestName} |-> [D |-> D, O |-> O]]
    /\ components = [n \in {TestName} |-> TestComponent]
    /\ last = NoCall
    /\ prev = NoCall
    /\ th = [w \in Workers |-> IdleWorker]
    /\ crashed = FALSE
    /\ NoOperator

\* result := component.MergeValues(componentValues), with what the call was
\* given (the trees as they were when it started) and what it produced
MergeCall ==
    /\ last = NoCall
    /\ \E C \in TierTrees(3) :
         LET c == components[TestName]
             cv == Obj(COwner(""), <<>>)
             h0 == HeapAdd(heap, LoadTree(C, COwner("")))
             m == MergeValues(h0, c, cv)
         IN /\ last' = [op |-> "MergeValues",
                        D |-> Flat(heap, c.Values), O |-> Flat(heap, c.RHOAIValues),
                        C |-> C, fold1 |-> Flat(m.h1, m.step2), res |-> Flat(m.h, m.ref)]
            /\ heap' = Persistent(m.h, DOMAIN heap)
    /\ UNCHANGED <<components, loaded, prev, th, crashed, opVars>>

\* the test drops the result
MergeReturn ==
    /\ last # NoCall
    /\ last' = NoCall
    /\ UNCHANGED <<components, heap, loaded, prev, th, crashed, opVars>>

MergeNext == MergeCall \/ MergeReturn

SpecMerge == MergeInit /\ [][MergeNext]_vars

----------------------------------------------------------------------------
(* Reading trees in flat form *)

\* tree f has an entry at path p
Has(f, p) == \E e \in f : e[1] = p

\* what a lookup of a missing key yields
Missing == [t |-> "none", s |-> 0, l |-> <<>>, m |-> NoObj]

\* the value of tree f at path p
Val(f, p) == IF Has(f, p) THEN (CHOOSE e \in f : e[1] = p)[2] ELSE Missing

\* the paths of the mappings that enclose path p, the root excluded
Prefixes(p) == {SubSeq(p, 1, i) : i \in 1..(Len(p) - 1)}

\* f defines the scalar key p: a scalar that is not the absent marker
Defines(f, p) == Val(f, p).t = "s"

\* f omits key p: no entry at p, and nothing but mappings on the way to it
Omits(f, p) == ~Has(f, p) /\ \A q \in Prefixes(p) : Has(f, q) => istable(Val(f, q))

\* the entries of f at and below path p
Under(f, p) == {e \in f : Len(e[1]) >= Len(p) /\ SubSeq(e[1], 1, Len(p)) = p}

\* the keys of the mapping of f at path p
KeysAt(f, p) == {e[1][Len(p) + 1] : e \in Children(f, p)}

\* the two folds of a finished MergeValues call r: platform overrides onto
\* chart defaults, component values onto that result
Folds(r) == {[hi |-> r.O, lo |-> r.D, out |-> r.fold1],
             [hi |-> r.C, lo |-> r.fold1, out |-> r.res]}

\* every path that occurs in a tree of call r
CallPaths(r) == {e[1] : e \in r.D \cup r.O \cup r.C \cup r.fold1 \cup r.res}

MergeDone == last.op = "MergeValues"

----------------------------------------------------------------------------
(* Properties of MergeValues (specification SpecMerge) *)

\* the three cases of precedence at key p, for chart defaults D, platform
\* overrides O, component values C and merged result res
PrecedenceAt(D, O, C, res, p) ==
    /\ Defines(C, p) => Val(res, p) = Val(C, p)
    /\ Omits(C, p) /\ Defines(O, p) => Val(res, p) = Val(O, p)
    /\ Omits(C, p) /\ Omits(O, p) /\ Defines(D, p) => Val(res, p) = Val(D, p)

\* C4: merge precedence.  For every scalar key, at any depth: the merged
\* value is the component's when the component tree defines the key, the
\* platform override's when the component tree omits it and the override
\* tree defines it, the chart default when both omit it.  This holds of the
\* trees as the call finds them and of the trees as they were loaded.
MergePrecedence ==
    MergeDone =>
      \A p \in CallPaths(last) \cup {e[1] : e \in loaded[TestName].D \cup loaded[TestName].O} :
        /\ PrecedenceAt(last.D, last.O, last.C, last.res, p)
        /\ PrecedenceAt(loaded[TestName].D, loaded[TestName].O, last.C, last.res, p)

\* a call in which each of the three cases decides a key, one of them nested
MergePrecedenceWitness ==
    /\ MergeDone
    /\ \E p, q, r \in CallPaths(last) :
         /\ Defines(last.C, p) /\ Defines(last.O, p) /\ Defines(last.D, p)
         /\ Omits(last.C, q) /\ Defines(last.O, q) /\ Defines(last.D, q)
         /\ Omits(last.C, r) /\ Omits(last.O, r) /\ Defines(last.D, r) /\ Len(r) > 1

\* where both trees of fold f hold a mapping, the result holds one, and every
\* key of it that the higher tree does not mention is as in the lower tree
SiblingsKept(f) ==
    \A p \in MapPaths(f.hi) \cap MapPaths(f.lo) :
      /\ p # <<>> => <<p, MapMark>> \in f.out
      /\ \A k \in KeysAt(f.lo, p) \cup KeysAt(f.out, p) :
           ~Has(f.hi, p \o <<k>>) => Under(f.out, p \o <<k>>) = Under(f.lo, p \o <<k>>)

\* C5: deep merge preserves siblings.  In each fold a key that holds a
\* mapping in both trees holds their recursive merge, so every nested key the
\* higher tree does not mention keeps its lower value, at every depth; and
\* where all three tiers hold a mapping, a key only the chart defaults
\* mention keeps the chart default.
DeepMergeKeepsSiblings ==
    MergeDone =>
      /\ \A f \in Folds(last) : SiblingsKept(f)
      /\ \A p \in MapPaths(last.C) \cap MapPaths(last.O) \cap MapPaths(last.D) :
           \A k \in KeysAt(last.D, p) :
             ~Has(last.C, p \o <<k>>) /\ ~Has(last.O, p \o <<k>>)
               => Under(last.res, p \o <<k>>) = Under(last.D, p \o <<k>>)

\* a nested mapping present in all three tiers: the component overrides one
\* key of it and its sibling comes through from the chart defaults
DeepMergeWitness ==
    /\ MergeDone
    /\ \E p \in (MapPaths(last.C) \cap MapPaths(last.O) \cap MapPaths(last.D)) \ {<<>>} :
         \E k, j \in KeysAt(last.res, p) :
           /\ Defines(last.C, p \o <<k>>) /\ Defines(last.D, p \o <<k>>)
           /\ Val(last.res, p \o <<k>>) = Val(last.C, p \o <<k>>)
           /\ ~Has(last.C, p \o <<j>>) /\ ~Has(last.O, p \o <<j>>)
           /\ Defines(last.D, p \o <<j>>)
           /\ Val(last.res, p \o <<j>>) = Val(last.D, p \o <<j>>)

\* C6: sequence replacement.  In each fold, a sequence the higher tree
\* supplies at a key is the result at that key exactly as supplied: nothing
\* of the lower sequence is appended or merged into it.
SequenceReplaced ==
    MergeDone =>
      \A f \in Folds(last) :
        \A e \in f.hi : e[2].t = "l" => Val(f.out, e[1]) = e[2]

\* the component supplies a sequence over a longer chart default sequence
SequenceReplacedWitness ==
    /\ MergeDone
    /\ \E e \in last.C :
         /\ e[2].t = "l"
         /\ Val(last.D, e[1]).t = "l"
         /\ Len(Val(last.D, e[1]).l) > Len(e[2].l)
         /\ Val(last.res, e[1]) = e[2]

\* in fold f the two trees disagree on the kind of key p: one holds a
\* mapping there, the other a scalar or a sequence
KindConflict(f, p) ==
    /\ Has(f.hi, p) /\ Has(f.lo, p)
    /\ \/ istable(Val(f.hi, p)) /\ Val(f.lo, p).t \in {"s", "l"}
       \/ Val(f.hi, p).t \in {"s", "l"} /\ istable(Val(f.lo, p))

\* C27: conflicting kinds.  In each fold, where one tree holds a mapping at
\* a key and the other a scalar or a sequence, the result at that key is the
\* higher tree's value, whole: nothing of the lower tree's value is merged
\* into it, whichever of the two is the mapping.
ConflictingKindsHigherWins ==
    MergeDone =>
      \A f \in Folds(last) : \A p \in CallPaths(last) :
        KindConflict(f, p) => Under(f.out, p) = Under(f.hi, p)

\* one call in which a mapping wins over a non-mapping in one fold and a
\* non-mapping wins over a mapping in the other
ConflictingKindsWitness ==
    /\ MergeDone
    /\ \E f, g \in Folds(last) : \E p, q \in CallPaths(last) :
         /\ KindConflict(f, p) /\ istable(Val(f.hi, p))
         /\ KindConflict(g, q) /\ istable(Val(g.lo, q))

\* C7: null deletes.  In each fold, a key at any depth whose higher value is
\* the absent marker does not occur in the fold's result.
NullDeletes ==
    MergeDone =>
      \A f \in Folds(last) :
        \A e \in f.hi : e[2].t = "nil" => ~Has(f.out, e[1])

----------------------------------------------------------------------------
(* The charts shipped under charts/ *)

\* charts/<name>.tgz exists
Packaged == {"chartA"}
\* charts/<name>/ exists
Unpacked == {"chartA", "chartB", "chartC", "chartD"}

\* flat-tree entries, for writing trees down
ES(p, n) == <<p, Sc(n)>>
EN(p) == <<p, NilV>>
EM(p) == <<p, MapMark>>

\* values.yaml of a chart
ChartValuesFile(chart) ==
    CASE chart = "chartA" ->
           { EM(<<"image">>), ES(<<"image", "tag">>, 1), ES(<<"image", "pullPolicy">>, 1),
             ES(<<"replicas">>, 1),
             EM(<<"persistence">>), EN(<<"persistence", "existingClaim">>) }
      [] chart = "chartB" ->
           { ES(<<"replicas">>, 1), EM(<<"features">>), ES(<<"features", "enabled">>, 1) }
      [] OTHER ->
           { ES(<<"replicas">>, 1) }

\* values.rhoai.yaml of a chart: not shipped, not parseable, or a tree
ChartRHOAIFile(chart) ==
    CASE chart = "chartA" ->
           [kind |-> "ok",
            tree |-> { EM(<<"image">>), EN(<<"image", "tag">>), ES(<<"replicas">>, 2) }]
      [] chart \in {"chartB", "chartD"} -> [kind |-> "none", tree |-> {}]
      [] OTHER -> [kind |-> "invalid", tree |-> {}]

\* the templates of a chart: file name (as path tokens), whether the text
\* the engine produces from it parses as YAML
ChartTemplates(chart) ==
    CASE chart = "chartA" ->
           { [file |-> <<"chartA", "/", "templates", "/", "deployment.yaml">>, yaml |-> TRUE],
             [file |-> <<"chartA", "/", "templates", "/", "NOTES.txt">>, yaml |-> FALSE],
             [file |-> <<"chartA", "/", "templates", "/", "tests", "/", "conn.yaml">>, yaml |-> TRUE] }
      [] chart = "chartB" ->
           { [file |-> <<"chartB", "/", "templates", "/", "service.yaml">>, yaml |-> TRUE],
             [file |-> <<"chartB", "/", "templates", "/", "hooks", "/", "pre.yaml">>, yaml |-> TRUE],
             [file |-> <<"chartB", "/", "templates", "/", "hooks.yaml">>, yaml |-> TRUE] }
      [] chart = "chartD" ->
           { [file |-> <<"chartD", "/", "templates", "/", "configmap.yaml">>, yaml |-> TRUE],
             [file |-> <<"chartD", "/", "templates", "/", "garbled.yaml">>, yaml |-> FALSE] }
      [] OTHER ->
           { [file |-> <<"chartC", "/", "templates", "/", "broken.yaml">>, yaml |-> TRUE] }

\* the engine cannot execute the chart's templates (syntax error)
EngineFails(chart) == chart = "chartC"

----------------------------------------------------------------------------
(* Errors *)

NoErr == [kind |-> "nil", mentions |-> {}]
Err(kind, mentions) == [kind |-> kind, mentions |-> mentions]

----------------------------------------------------------------------------
(* loader.go *)

\* a loader that keeps what it could read of an override file that does not
\* parse
extractRHOAIValuesPartial(chart, name) ==
    LET f == ChartRHOAIFile(chart)
    IN IF f.kind = "ok"
         THEN [ref |-> Obj(OOwner(name), <<>>), objs |-> LoadTree(f.tree, OOwner(name)),
               err |-> NoErr]
       ELSE IF f.kind = "invalid"
         THEN [ref |-> Obj(OOwner(name), <<>>),
               objs |-> LoadTree({ES(<<"replicas">>, 9)}, OOwner(name)),
               err |-> Err("invalid values.rhoai.yaml", {})]
       ELSE [ref |-> Obj(OOwner(name), <<>>), objs |-> LoadTree({}, OOwner(name)),
             err |-> NoErr]

\* c.extractRHOAIValues(): the override tree the component ends up with.
\* A parse error is returned before c.RHOAIValues is assigned (it stays nil).
extractRHOAIValues(chart, name) ==
    LET f == ChartRHOAIFile(chart)
    IN IF f.kind = "ok"
         THEN [ref |-> Obj(OOwner(name), <<>>), objs |-> LoadTree(f.tree, OOwner(name)),
               err |-> NoErr]
       ELSE IF f.kind = "invalid"
         THEN [ref |-> NoObj, objs |-> <<>>, err |-> Err("invalid values.rhoai.yaml", {})]
       ELSE [ref |-> Obj(OOwner(name), <<>>), objs |-> LoadTree({}, OOwner(name)),
             err |-> NoErr]

\* filepath.Join("charts", chartPath+".tgz") and filepath.Join("charts",
\* chartPath), as path tokens
FullPath(chartPath) == <<"charts", "/", chartPath, ".tgz">>
DirPath(chartPath) == <<"charts", "/", chartPath>>

\* a loader that looks for the unpacked directory first
LoadAttemptsDirFirst(chartPath) ==
    IF chartPath \in Unpacked
      THEN [err |-> NoErr, tried |-> <<DirPath(chartPath)>>, from |-> "dir"]
    ELSE IF chartPath \in Packaged
      THEN [err |-> NoErr, tried |-> <<DirPath(chartPath), FullPath(chartPath)>>,
            from |-> "tgz"]
    ELSE [err |-> Err("failed to load chart",
                      {chartPath, FullPath(chartPath), DirPath(chartPath)}),
          tried |-> <<DirPath(chartPath), FullPath(chartPath)>>, from |-> "none"]

\* the loader.Load calls of LoadChart: the paths tried in order, where the
\* chart came from, and the error, whose message names both paths
LoadAttempts(chartPath) ==
    IF chartPath \in Packaged
      THEN [err |-> NoErr, tried |-> <<FullPath(chartPath)>>, from |-> "tgz"]
    ELSE IF chartPath \in Unpacked
      THEN [err |-> NoErr, tried |-> <<FullPath(chartPath), DirPath(chartPath)>>,
            from |-> "dir"]
    ELSE [err |-> Err("failed to load chart",
                      {chartPath, FullPath(chartPath), DirPath(chartPath)}),
          tried |-> <<FullPath(chartPath), DirPath(chartPath)>>, from |-> "none"]

\* c.LoadChart(chartPath) for the component being registered as `name`:
\* the packaged chart first, the unpacked directory second
LoadChart(chartPath, name) ==
    LET a == LoadAttempts(chartPath)
    IN IF a.err = NoErr
         THEN LET x == extractRHOAIValues(chartPath, name)
              IN [err |-> NoErr, Chart |-> chartPath,
                  Values |-> Obj(DOwner(name), <<>>), RHOAIValues |-> x.ref,
                  objs |-> HeapAdd(LoadTree(ChartValuesFile(chartPath), DOwner(name)), x.objs),
                  tried |-> a.tried, from |-> a.from]
         ELSE [err |-> a.err, Chart |-> NoChart,
               Values |-> NoObj, RHOAIValues |-> NoObj, objs |-> <<>>,
               tried |-> a.tried, from |-> a.from]

----------------------------------------------------------------------------
(* Inputs of the registry *)

\* names a component can be registered or asked for under
Names == {"", "c1", "c2"}

\* config.ChartName
ChartNames == {"", "chartA", "chartB", "chartC", "chartD", "missing"}

\* config.ValuesGenerator: nil, or one of two generator functions
NoGen == ""
Generators == {"genA", "genB"}

\* config.Watches
GVK(g, v, k) == [Group |-> g, Version |-> v, Kind |-> k]
WatchesA == <<GVK("apps", "v1", "Deployment")>>
WatchesB == <<GVK("custom.io", "v1alpha1", "CustomResource"), GVK("", "v1", "Service")>>

\* the ComponentConfig values handed to Register
Configs ==
    { [ChartName |-> cn, ValuesGenerator |-> gw[1], Watches |-> gw[2]] :
        cn \in ChartNames,
        gw \in {<<NoGen, WatchesA>>, <<"genA", WatchesA>>, <<"genB", WatchesB>>} }

\* the component specs handed to Render; 0 is a value of the wrong type
ComponentSpecs == 0..NumSpecs

\* config.ValuesGenerator(spec): an error, or the component's value tree
ValuesGenerator(gen, spec) ==
    IF gen = "genA"
      THEN IF spec = 0
             THEN [err |-> Err("unexpected spec type", {}), tree |-> {}]
             ELSE [err |-> NoErr, tree |-> { ES(<<"replicas">>, 2 + spec) }]
      ELSE IF spec = 0
             THEN [err |-> NoErr, tree |-> {}]
             ELSE [err |-> NoErr,
                   tree |-> { EM(<<"image">>), ES(<<"image", "tag">>, 2 + spec),
                              EN(<<"persistence">>) }]

----------------------------------------------------------------------------
(* The registry: src/internal/controller/helmregistry/langfuse_init.go and  *)
(* src/internal/controller/components/langfuse/langfuse_webhook.go          *)

\* a validation that forgets the generator
validateChartNameOnly(config) ==
    IF config.ChartName = "" THEN Err("ChartName cannot be empty", {})
    ELSE NoErr

\* validateComponentConfig(config): nil or the error
validateComponentConfig(config) ==
    IF config.ChartName = "" THEN Err("ChartName cannot be empty", {})
    ELSE IF config.ValuesGenerator = NoGen THEN Err("ValuesGenerator cannot be nil", {})
    ELSE NoErr

\* a Register without the duplicate check: the later registration replaces
\* the earlier one
RegisterOutcomeOverwrite(comps, h, name, config) ==
    LET v == validateComponentConfig(config)
        ld == LoadChart(config.ChartName, name)
        component == [ChartName |-> config.ChartName,
                      ValuesGenerator |-> config.ValuesGenerator,
                      Watches |-> config.Watches,
                      Chart |-> ld.Chart, Values |-> ld.Values,
                      RHOAIValues |-> ld.RHOAIValues, pendingWatches |-> {}]
    IN IF v # NoErr
         THEN [err |-> Err("ErrInvalidConfig", v.mentions), comps |-> comps, h |-> h]
       ELSE IF ld.err # NoErr
         THEN [err |-> Err("ErrChartLoadFailed", ld.err.mentions), comps |-> comps, h |-> h]
       ELSE [err |-> NoErr,
             comps |-> [n \in DOMAIN comps \cup {name} |->
                          IF n = name THEN component ELSE comps[n]],
             h |-> HeapAdd(h, ld.objs)]

\* a Register that stores the component before its chart is loaded
RegisterOutcomeEager(comps, h, name, config) ==
    LET v == validateComponentConfig(config)
        ld == LoadChart(config.ChartName, name)
        component == [ChartName |-> config.ChartName,
                      ValuesGenerator |-> config.ValuesGenerator,
                      Watches |-> config.Watches,
                      Chart |-> ld.Chart, Values |-> ld.Values,
                      RHOAIValues |-> ld.RHOAIValues, pendingWatches |-> {}]
        stored == [n \in DOMAIN comps \cup {name} |->
                     IF n = name THEN component ELSE comps[n]]
    IN IF v # NoErr
         THEN [err |-> Err("ErrInvalidConfig", v.mentions), comps |-> comps, h |-> h]
       ELSE IF name \in DOMAIN comps
         THEN [err |-> Err("ErrDuplicateComponent", {name}), comps |-> comps, h |-> h]
       ELSE IF ld.err # NoErr
         THEN [err |-> Err("ErrChartLoadFailed", ld.err.mentions), comps |-> stored, h |-> h]
       ELSE [err |-> NoErr, comps |-> stored, h |-> HeapAdd(h, ld.objs)]

\* r.Register(name, config) on catalog comps and heap h: the error returned
\* and the catalog and heap it leaves
RegisterOutcome(comps, h, name, config) ==
    LET v == validateComponentConfig(config)
        ld == LoadChart(config.ChartName, name)
        component == [ChartName |-> config.ChartName,
                      ValuesGenerator |-> config.ValuesGenerator,
                      Watches |-> config.Watches,
                      Chart |-> ld.Chart, Values |-> ld.Values,
                      RHOAIValues |-> ld.RHOAIValues, pendingWatches |-> {}]
    IN IF v # NoErr
         THEN [err |-> Err("ErrInvalidConfig", v.mentions), comps |-> comps, h |-> h]
       ELSE IF name \in DOMAIN comps
         THEN [err |-> Err("ErrDuplicateComponent", {name}), comps |-> comps, h |-> h]
       ELSE IF ld.err # NoErr
         THEN [err |-> Err("ErrChartLoadFailed", ld.err.mentions), comps |-> comps, h |-> h]
       ELSE [err |-> NoErr,
             comps |-> [n \in DOMAIN comps \cup {name} |->
                          IF n = name THEN component ELSE comps[n]],
             h |-> HeapAdd(h, ld.objs)]

\* a Register that loads the chart before it checks anything
RegisterLoadsFirst(comps, name, config) == <<config.ChartName>>

\* the LoadChart calls one r.Register(name, config) makes: the call returns
\* before reaching component.LoadChart when validation or the duplicate
\* check fails
RegisterLoads(comps, name, config) ==
    IF validateComponentConfig(config) # NoErr THEN <<>>
    ELSE IF name \in DOMAIN comps THEN <<>>
    ELSE <<config.ChartName>>

\* the trees of a registration as they are on the heap
TreesOf(h, c) == [D |-> Flat(h, c.Values), O |-> Flat(h, c.RHOAIValues)]

Register(name, config) ==
    /\ last = NoCall
    /\ LET out == RegisterOutcome(components, heap, name, config)
       IN /\ components' = out.comps
          /\ heap' = out.h
          /\ loaded' = [n \in DOMAIN out.comps |->
                          IF n \in DOMAIN loaded THEN loaded[n]
                          ELSE TreesOf(out.h, out.comps[n])]
          /\ last' = [op |-> "Register", name |-> name, config |-> config,
                      err |-> out.err, before |-> components,
                      loads |-> RegisterLoads(components, name, config)]
    /\ prev' = NoCall
    /\ UNCHANGED <<th, crashed, opVars>>

\* r.GetComponent(name): (component, exists)
GetComponentOf(comps, name) ==
    IF name \in DOMAIN comps THEN [exists |-> TRUE, component |-> comps[name]]
    ELSE [exists |-> FALSE, component |-> NoCall]

GetComponent(name) ==
    /\ last = NoCall
    /\ last' = [op |-> "GetComponent", name |-> name,
                got |-> GetComponentOf(components, name)]
    /\ UNCHANGED <<components, heap, loaded, prev, th, crashed, opVars>>

\* the orders `for name := range r.components` can produce
Orders(S) == {q \in [1..Cardinality(S) -> S] : \A i, j \in DOMAIN q : i # j => q[i] # q[j]}

\* r.ListComponents(): the names in map iteration order
ListComponents ==
    /\ last = NoCall
    /\ \E names \in Orders(DOMAIN components) :
         last' = [op |-> "ListComponents", names |-> names]
    /\ UNCHANGED <<components, heap, loaded, prev, th, crashed, opVars>>

----------------------------------------------------------------------------
(* Rendering: src/internal/controller/helmregistry/langfuse_values_test.go  *)
(* (RenderTemplates) and langfuse_init.go (Render)                          *)

\* strings.Contains(filename, part), on file names split into tokens
ContainsTokens(filename, part) ==
    \E i \in 1..Len(filename) :
        /\ i + Len(part) - 1 <= Len(filename)
        /\ SubSeq(filename, i, i + Len(part) - 1) = part

\* a filter that lets lifecycle hooks through
shouldExcludeNotesAndTests(filename) ==
    \/ ContainsTokens(filename, <<"NOTES.txt">>)
    \/ ContainsTokens(filename, <<"/", "tests", "/">>)

\* shouldExcludeFile(filename): NOTES.txt, /tests/, /hooks/
shouldExcludeFile(filename) ==
    \/ ContainsTokens(filename, <<"NOTES.txt">>)
    \/ ContainsTokens(filename, <<"/", "tests", "/">>)
    \/ ContainsTokens(filename, <<"/", "hooks", "/">>)

\* a nil manifest map
NilManifests == [isNil |-> TRUE, files |-> {}]

\* renderer.Render(c.Chart, values): one entry per template, its text a
\* function of the values it was rendered with
EngineRender(chart, values) ==
    { [file |-> t.file, yaml |-> t.yaml, text |-> values] : t \in ChartTemplates(chart) }

\* a RenderTemplates that validates an entry before it looks at its name
RenderTemplatesValidatesAll(c, values) ==
    IF c.Chart = NoChart
      THEN [err |-> Err("chart not loaded", {}), manifests |-> NilManifests]
    ELSE IF EngineFails(c.Chart)
      THEN [err |-> Err("template rendering failed", {}), manifests |-> NilManifests]
    ELSE LET kept == {e \in EngineRender(c.Chart, values) : ~shouldExcludeFile(e.file)}
         IN IF \E e \in EngineRender(c.Chart, values) : ~e.yaml
              THEN [err |-> Err("invalid YAML", {}), manifests |-> NilManifests]
              ELSE [err |-> NoErr,
                    manifests |-> [isNil |-> FALSE,
                                   files |-> {[file |-> e.file, text |-> e.text] : e \in kept}]]

\* c.RenderTemplates(values), values given as the tree they denote
RenderTemplates(c, values) ==
    IF c.Chart = NoChart
      THEN [err |-> Err("chart not loaded", {}), manifests |-> NilManifests]
    ELSE IF EngineFails(c.Chart)
      THEN [err |-> Err("template rendering failed", {}), manifests |-> NilManifests]
    ELSE LET kept == {e \in EngineRender(c.Chart, values) : ~shouldExcludeFile(e.file)}
         IN IF \E e \in kept : ~e.yaml
              THEN [err |-> Err("invalid YAML", {}), manifests |-> NilManifests]
              ELSE [err |-> NoErr,
                    manifests |-> [isNil |-> FALSE,
                                   files |-> {[file |-> e.file, text |-> e.text] : e \in kept}]]

\* the steps of Render, in the order the code takes them
RenderSteps == <<"GetComponent", "ValuesGenerator", "MergeValues", "RenderTemplates">>

\* a Render that lets a generator error pass and merges no component values
RenderOutcomeLenient(comps, h, name, spec, w) ==
    LET got == GetComponentOf(comps, name)
        c == got.component
        cv == Obj(COwner(w), <<>>)
        m == MergeValues(HeapAdd(h, LoadTree({}, COwner(w))), c, cv)
        values == Flat(m.h, m.ref)
        rt == RenderTemplates(c, values)
    IN IF ~got.exists
         THEN [err |-> Err("ErrComponentNotFound", {name}), manifests |-> NilManifests, h |-> h,
               invoked |-> SubSeq(RenderSteps, 1, 1), values |-> {}]
       ELSE IF rt.err # NoErr
         THEN [err |-> Err("ErrTemplateRendering", rt.err.mentions \cup {rt.err.kind}),
               manifests |-> NilManifests, h |-> m.h, invoked |-> RenderSteps, values |-> values]
       ELSE [err |-> NoErr, manifests |-> rt.manifests, h |-> m.h,
             invoked |-> RenderSteps, values |-> values]

\* r.Render(name, spec) by caller w on catalog comps and heap h: the error,
\* the manifests and the heap the call leaves; the steps it went through and
\* the merged values it handed to RenderTemplates.  The cause of a wrapped
\* error is kept in the message (%v).
RenderOutcome(comps, h, name, spec, w) ==
    LET got == GetComponentOf(comps, name)
        c == got.component
        gen == ValuesGenerator(c.ValuesGenerator, spec)
        cv == Obj(COwner(w), <<>>)
        m == MergeValues(HeapAdd(h, LoadTree(gen.tree, COwner(w))), c, cv)
        values == Flat(m.h, m.ref)
        rt == RenderTemplates(c, values)
    IN IF ~got.exists
         THEN [err |-> Err("ErrComponentNotFound", {name}), manifests |-> NilManifests, h |-> h,
               invoked |-> SubSeq(RenderSteps, 1, 1), values |-> {}]
       ELSE IF gen.err # NoErr
         THEN [err |-> Err("ErrValuesGeneration", gen.err.mentions \cup {gen.err.kind}),
               manifests |-> NilManifests, h |-> h,
               invoked |-> SubSeq(RenderSteps, 1, 2), values |-> {}]
       ELSE IF rt.err # NoErr
         THEN [err |-> Err("ErrTemplateRendering", rt.err.mentions \cup {rt.err.kind}),
               manifests |-> NilManifests, h |-> m.h, invoked |-> RenderSteps, values |-> values]
       ELSE [err |-> NoErr, manifests |-> rt.manifests, h |-> m.h,
             invoked |-> RenderSteps, values |-> values]

Render(name, spec) ==
    /\ last = NoCall
    /\ LET out == RenderOutcome(components, heap, name, spec, "")
       IN /\ last' = [op |-> "Render", name |-> name, spec |-> spec,
                      err |-> out.err, manifests |-> out.manifests,
                      invoked |-> out.invoked, values |-> out.values]
          /\ heap' = Persistent(out.h, DOMAIN heap)
    /\ UNCHANGED <<components, loaded, prev, th, crashed, opVars>>

\* the caller is done with what the call returned
Return ==
    /\ last # NoCall
    /\ last' = NoCall
    /\ UNCHANGED <<components, heap, loaded, prev, th, crashed, opVars>>

----------------------------------------------------------------------------
(* The registry from process start *)

\* NewHelmManagedComponentRegistry(): components: make(map)
Init ==
    /\ components = <<>>
    /\ heap = <<>>
    /\ loaded = <<>>
    /\ last = NoCall
    /\ prev = NoCall
    /\ th = [w \in Workers |-> IdleWorker]
    /\ crashed = FALSE
    /\ NoOperator

Next ==
    \/ \E name \in Names, config \in Configs : Register(name, config)
    \/ \E name \in Names : GetComponent(name)
    \/ ListComponents
    \/ \E name \in Names, spec \in ComponentSpecs : Render(name, spec)
    \/ Return

Spec == Init /\ [][Next]_vars

----------------------------------------------------------------------------
(* Rendering from a catalog filled at process start (specification          *)
(* SpecRender): the init() functions have registered the components, and    *)
(* the reconcilers render, one call after the other.                        *)

\* the configs an init() registers: a failed registration is fatal
StartupConfigs ==
    {cfg \in Configs : cfg.ValuesGenerator # NoGen /\ cfg.ChartName \in Packaged \cup Unpacked}

\* the registry after Register("c1", cfg1) and Register("c2", cfg2)
Startup(cfg1, cfg2) ==
    LET r1 == RegisterOutcome(<<>>, <<>>, "c1", cfg1)
    IN RegisterOutcome(r1.comps, r1.h, "c2", cfg2)

RenderInit ==
    /\ \E cfg1, cfg2 \in StartupConfigs :
         LET r == Startup(cfg1, cfg2)
         IN /\ components = r.comps
            /\ heap = r.h
            /\ loaded = [n \in DOMAIN r.comps |-> TreesOf(r.h, r.comps[n])]
    /\ last = NoCall
    /\ prev = NoCall
    /\ th = [w \in Workers |-> IdleWorker]
    /\ crashed = FALSE
    /\ NoOperator

\* the caller keeps what Render returned, to compare later results with it
Keep ==
    /\ last # NoCall
    /\ prev' = last
    /\ last' = NoCall
    /\ UNCHANGED <<components, heap, loaded, th, crashed, opVars>>

RenderNext ==
    \/ \E name \in Names, spec \in ComponentSpecs : Render(name, spec)
    \/ Return
    \/ Keep

SpecRender == RenderInit /\ [][RenderNext]_vars

----------------------------------------------------------------------------
(* Concurrent renders (specification SpecConc).  Reconcilers call Render    *)
(* from several goroutines.  Render holds the registry lock only inside     *)
(* GetComponent; MergeValues runs without any lock, so the steps of its map *)
(* operations interleave.  The first CoalesceTables call is taken one       *)
(* iteration of its range loop at a time.                                   *)

\* the component worker w renders
Comp(w) == components[th[w].name]

\* worker w is inside the first CoalesceTables call and an iteration it has
\* still to run writes to the map it merges into
Pending(w) ==
    /\ th[w].pc = "fold1"
    /\ \E k \in th[w].todo :
         CoalesceKey(heap, Comp(w).RHOAIValues, Comp(w).Values, k) # heap

\* worker w has written part of its merge into the override tree, not all
MidMerge(w) == th[w].pc = "fold1" /\ th[w].wrote /\ Pending(w)

\* a worker other than w is part way through merging into the tree of `name`
SeesPartial(w, name) ==
    \E v \in Workers \ {w} : th[v].pc = "fold1" /\ th[v].name = name /\ MidMerge(v)

\* a call that is over but for returning
Done(name, spec, err, manifests, partial) ==
    [pc |-> "done", name |-> name, spec |-> spec, err |-> err,
     manifests |-> manifests, partial |-> partial]

\* Render(name, spec) up to the first map operation of MergeValues:
\* GetComponent, ValuesGenerator, the tests of step 2
Begin(w, name, spec) ==
    /\ ~crashed
    /\ th[w].pc = "idle"
    /\ LET got == GetComponentOf(components, name)
           c == got.component
           gen == ValuesGenerator(c.ValuesGenerator, spec)
       IN th' = [th EXCEPT ![w] =
            IF ~got.exists
              THEN Done(name, spec, Err("ErrComponentNotFound", {name}), NilManifests, FALSE)
            ELSE IF gen.err # NoErr
              THEN Done(name, spec, Err("ErrValuesGeneration", gen.err.mentions),
                        NilManifests, FALSE)
            ELSE IF OverridesApply(heap, c)
              THEN [pc |-> "fold1", name |-> name, spec |-> spec,
                    todo |-> DOMAIN heap[c.Values], wrote |-> FALSE,
                    partial |-> SeesPartial(w, name)]
            ELSE [pc |-> "fold2", name |-> name, spec |-> spec, result |-> c.Values,
                  partial |-> FALSE]]
    /\ UNCHANGED <<components, heap, loaded, last, prev, crashed, opVars>>

\* one iteration of the range loop of CoalesceTables(c.RHOAIValues, result)
Fold1Step(w) ==
    /\ ~crashed
    /\ th[w].pc = "fold1"
    /\ \E key \in th[w].todo :
         LET c == Comp(w)
             h1 == CoalesceKey(heap, c.RHOAIValues, c.Values, key)
             partial == th[w].partial \/ SeesPartial(w, th[w].name)
         IN /\ heap' = h1
            /\ th' = [th EXCEPT ![w] =
                 IF th[w].todo = {key}
                   THEN [pc |-> "fold2", name |-> th[w].name, spec |-> th[w].spec,
                         result |-> c.RHOAIValues, partial |-> partial]
                   ELSE [@ EXCEPT !.todo = @ \ {key},
                                  !.wrote = @ \/ h1 # heap,
                                  !.partial = partial]]
    /\ UNCHANGED <<components, loaded, last, prev, crashed, opVars>>

\* step 3 of MergeValues and RenderTemplates: the component values are
\* coalesced over the result of step 2, which is read where it is stored
Fold2(w) ==
    /\ ~crashed
    /\ th[w].pc = "fold2"
    /\ LET c == Comp(w)
           gen == ValuesGenerator(c.ValuesGenerator, th[w].spec)
           cv == Obj(COwner(w), <<>>)
           m == ComponentFold(HeapAdd(heap, LoadTree(gen.tree, COwner(w))), th[w].result, cv)
           rt == RenderTemplates(c, Flat(m.h, m.ref))
           partial == th[w].partial \/ SeesPartial(w, th[w].name)
       IN /\ th' = [th EXCEPT ![w] =
                 IF rt.err # NoErr
                   THEN Done(th[w].name, th[w].spec,
                             Err("ErrTemplateRendering", rt.err.mentions \cup {rt.err.kind}),
                             NilManifests, partial)
                   ELSE Done(th[w].name, th[w].spec, NoErr, rt.manifests, partial)]
          /\ heap' = Persistent(m.h, DOMAIN heap)
    /\ UNCHANGED <<components, loaded, last, prev, crashed, opVars>>

\* Render returns to its caller
Finish(w) ==
    /\ ~crashed
    /\ th[w].pc = "done"
    /\ th' = [th EXCEPT ![w] = IdleWorker]
    /\ UNCHANGED <<components, heap, loaded, last, prev, crashed, opVars>>

\* worker w is at a map operation on the override tree of its component
OnOverrides(w) == th[w].pc \in {"fold1", "fold2"}

\* a map written by one goroutine while another one reads or writes it: the
\* runtime may stop the process ("fatal error: concurrent map writes",
\* "concurrent map read and map write"), or the accesses may go through
RaceFault ==
    /\ ~crashed
    /\ \E w, v \in Workers :
         /\ w # v
         /\ Pending(w)
         /\ OnOverrides(v) /\ th[v].name = th[w].name
    /\ crashed' = TRUE
    /\ UNCHANGED <<components, heap, loaded, last, prev, th, opVars>>

ConcNext ==
    \/ \E w \in Workers, name \in Names, spec \in ComponentSpecs : Begin(w, name, spec)
    \/ \E w \in Workers : Fold1Step(w)
    \/ \E w \in Workers : Fold2(w)
    \/ \E w \in Workers : Finish(w)
    \/ RaceFault

SpecConc == RenderInit /\ [][ConcNext]_vars

----------------------------------------------------------------------------
(* Properties of Render *)

\* C1: Render and MergeValues never write to a registration's stored trees.
\* Whatever calls have been made, the chart default values and the platform
\* override tree of every registration in the catalog are what they were
\* when its registration finished.
StoredTreesUntouched ==
    \A n \in DOMAIN components : TreesOf(heap, components[n]) = loaded[n]

\* C2: Render is deterministic.  Two Render calls with the same name and the
\* same component config, with nothing but Render calls between them, return
\* identical manifest sets (specification SpecRender, which has no Register).
RenderDeterministic ==
    (last.op = "Render" /\ prev.op = "Render"
       /\ prev.name = last.name /\ prev.spec = last.spec)
      => last.manifests = prev.manifests

\* the heap as it was when the registrations finished
LoadedHeap ==
    LET names == DOMAIN loaded
        objs(n) == HeapAdd(LoadTree(loaded[n].D, DOwner(n)), LoadTree(loaded[n].O, OOwner(n)))
        all == UNION {DOMAIN objs(n) : n \in names}
    IN [r \in all |-> objs(CHOOSE n \in names : r \in DOMAIN objs(n))[r]]

\* what a Render(name, spec) returns when it is the only call ever made
Solitary(name, spec) == RenderOutcome(components, LoadedHeap, name, spec, "")

\* C3: under every interleaving of concurrent Render calls, every call
\* returns, and returns exactly the manifest set a solitary Render with the
\* same config returns; no call reads a tree another call has merged into
\* only in part; no two calls are writing the same tree at the same time.
ConcurrentRendersIsolated ==
    /\ ~crashed
    /\ \A w \in Workers :
         th[w].pc = "done" =>
           /\ th[w].manifests = Solitary(th[w].name, th[w].spec).manifests
           /\ ~th[w].partial
    /\ \A w, v \in Workers :
         (w # v /\ Pending(w) /\ Pending(v)) => th[w].name # th[v].name

----------------------------------------------------------------------------
(* Properties of Register (specification Spec) *)

RegisterDone == last.op = "Register"

\* the Register call that just returned named a component already registered
DuplicateCall == RegisterDone /\ last.name \in DOMAIN last.before

\* the registration under `name` is the one the catalog held before the call
FirstRegistrationKept ==
    /\ GetComponentOf(components, last.name).exists
    /\ GetComponentOf(components, last.name).component = last.before[last.name]

\* C8 as stated: a Register call whose name is already in the catalog returns
\* DuplicateName, whatever config it carried, and GetComponent(name) still
\* returns the first registration.
DuplicateRejectedAnyConfig ==
    DuplicateCall =>
      /\ last.err.kind = "ErrDuplicateComponent"
      /\ FirstRegistrationKept

\* C8 amended: a Register call whose name is already in the catalog returns
\* DuplicateName when its config has a chart name and a generator, and
\* InvalidConfig when it lacks either; in both cases GetComponent(name) still
\* returns the first registration (its chart, generator and watch set).
DuplicateRejected ==
    DuplicateCall =>
      /\ (last.config.ChartName # "" /\ last.config.ValuesGenerator # NoGen)
           => last.err = Err("ErrDuplicateComponent", {last.name})
      /\ (last.config.ChartName = "" \/ last.config.ValuesGenerator = NoGen)
           => last.err.kind = "ErrInvalidConfig"
      /\ FirstRegistrationKept

\* a second registration under a taken name with another chart, generator and
\* watch set is turned down as a duplicate
DuplicateRejectedWitness ==
    /\ DuplicateCall
    /\ last.err.kind = "ErrDuplicateComponent"
    /\ last.config.ChartName # last.before[last.name].ChartName
    /\ last.config.ValuesGenerator # last.before[last.name].ValuesGenerator
    /\ last.config.Watches # last.before[last.name].Watches

\* C9: a Register call that fails, for whichever of the three reasons, leaves
\* the catalog exactly as it was; a new component with a valid config whose
\* chart does not resolve gets BundleLoadFailed, and its name is not in the
\* catalog that ListComponents and GetComponent answer from.
FailedRegisterLeavesCatalog ==
    /\ (RegisterDone /\ last.err # NoErr) =>
         /\ last.err.kind \in {"ErrInvalidConfig", "ErrDuplicateComponent", "ErrChartLoadFailed"}
         /\ components = last.before
    /\ (RegisterDone /\ last.config.ChartName # "" /\ last.config.ValuesGenerator # NoGen
          /\ last.name \notin DOMAIN last.before
          /\ last.config.ChartName \notin Packaged \cup Unpacked) =>
         /\ last.err.kind = "ErrChartLoadFailed"
         /\ last.name \notin DOMAIN components
    /\ last.op = "ListComponents" =>
         {last.names[i] : i \in DOMAIN last.names} = DOMAIN components
    /\ last.op = "GetComponent" =>
         last.got.exists = (last.name \in DOMAIN components)

\* a chart that does not resolve, registered into a catalog that already
\* holds a component
FailedRegisterWitness ==
    /\ RegisterDone
    /\ last.err.kind = "ErrChartLoadFailed"
    /\ last.before # <<>>
    /\ components = last.before
    /\ last.name \notin DOMAIN components

\* C10 as stated: Register rejects with InvalidConfig, and inserts nothing,
\* whenever the component name is empty or the generator is absent.
EmptyNameRejected ==
    (RegisterDone /\ (last.name = "" \/ last.config.ValuesGenerator = NoGen)) =>
      /\ last.err.kind = "ErrInvalidConfig"
      /\ components = last.before

\* C10 amended: Register rejects with InvalidConfig, and inserts nothing,
\* whenever the config's chart name is empty or the generator is absent.
InvalidConfigRejected ==
    (RegisterDone /\ (last.config.ChartName = "" \/ last.config.ValuesGenerator = NoGen)) =>
      /\ last.err.kind = "ErrInvalidConfig"
      /\ components = last.before

\* a new, named component with a chart that resolves but no generator is
\* turned down
InvalidConfigWitness ==
    /\ RegisterDone
    /\ last.name # "" /\ last.name \notin DOMAIN last.before
    /\ last.config.ChartName \in Packaged \cup Unpacked
    /\ last.config.ValuesGenerator = NoGen
    /\ last.err.kind = "ErrInvalidConfig"
    /\ last.name \notin DOMAIN components

----------------------------------------------------------------------------
(* Properties of the steps of Render (specification Spec) *)

RenderDone == last.op = "Render"

\* the component a finished Render call was made for is in the catalog
RenderedRegistered == RenderDone /\ last.name \in DOMAIN components

\* the generator of the rendered component turns the call's spec down
GeneratorFails ==
    ValuesGenerator(components[last.name].ValuesGenerator, last.spec).err # NoErr

\* C12: Render fails in step order, with a nil manifest set: ComponentNotFound
\* for a name that is not registered, the generator and the engine not being
\* invoked; ValuesGenerationFailed when the generator returns an error, the
\* merge and the engine not being invoked; RenderingFailed when the engine
\* returns an error.
RenderFailsInStepOrder ==
    RenderDone =>
      /\ last.err # NoErr => last.manifests = NilManifests
      /\ last.name \notin DOMAIN components =>
           /\ last.err = Err("ErrComponentNotFound", {last.name})
           /\ last.invoked = <<"GetComponent">>
      /\ (RenderedRegistered /\ GeneratorFails) =>
           /\ last.err.kind = "ErrValuesGeneration"
           /\ last.invoked = <<"GetComponent", "ValuesGenerator">>
      /\ (RenderedRegistered /\ ~GeneratorFails /\ EngineFails(components[last.name].Chart)) =>
           /\ last.err.kind = "ErrTemplateRendering"
           /\ last.invoked = RenderSteps

\* a registered component whose generator turns the spec down
RenderFailsWitness ==
    /\ RenderedRegistered
    /\ GeneratorFails
    /\ last.err.kind = "ErrValuesGeneration"
    /\ last.manifests = NilManifests

\* the engine's output for a finished Render call
EngineOutput == EngineRender(components[last.name].Chart, last.values)

\* the file name denotes a post-install note, a test fixture or a hook
NotDeployable(file) ==
    \E i \in 1..Len(file) :
      \/ file[i] = "NOTES.txt"
      \/ /\ file[i] \in {"tests", "hooks"}
         /\ 1 < i /\ i < Len(file)
         /\ file[i - 1] = "/" /\ file[i + 1] = "/"

\* the engine ran, succeeded, and an entry that survives the filter holds
\* text that is not well-formed
SurvivorMalformed ==
    /\ RenderedRegistered
    /\ last.invoked = RenderSteps
    /\ ~EngineFails(components[last.name].Chart)
    /\ \E e \in EngineOutput : ~NotDeployable(e.file) /\ ~e.yaml

\* C13: when the engine succeeds but a surviving entry's text is not
\* well-formed, Render reports InvalidManifest, a kind the caller can tell
\* from RenderingFailed.
MalformedIsInvalidManifest ==
    SurvivorMalformed =>
      /\ last.err.kind = "ErrInvalidManifest"
      /\ last.err.kind # "ErrTemplateRendering"

\* C14: a successful render returns exactly the engine's entries whose name
\* does not denote a post-install note, a test fixture or a lifecycle hook,
\* each with its text unchanged.
OnlyDeployableReturned ==
    (RenderDone /\ last.err = NoErr) =>
      /\ ~last.manifests.isNil
      /\ last.manifests.files =
           {[file |-> e.file, text |-> e.text] : e \in {x \in EngineOutput : ~NotDeployable(x.file)}}

\* a successful render that dropped a hook and kept a manifest named after one
OnlyDeployableWitness ==
    /\ RenderDone /\ last.err = NoErr
    /\ \E e \in EngineOutput : ContainsTokens(e.file, <<"hooks">>)
    /\ \E e \in EngineOutput, f \in last.manifests.files :
         /\ f.file = e.file /\ f.text = e.text
         /\ ContainsTokens(e.file, <<"hooks.yaml">>)
    /\ Cardinality(last.manifests.files) < Cardinality(EngineOutput)

----------------------------------------------------------------------------
(* Deferred watches: src/internal/controller/helmregistry/watches.go and    *)
(* the watch methods of langfuse_webhook.go.  c.pendingWatches is a         *)
(* map[GroupVersionKind]bool in which only true is ever stored; it is kept  *)
(* as the set of its keys.                                                  *)

\* number of versions a resource-type definition lists
MaxVersions == 2

\* crd.Spec.Versions: every list of up to MaxVersions versions
VersionNames == {"v1alpha1", "v1beta1"}
Versions == {[Name |-> v, Served |-> b] : v \in VersionNames, b \in BOOLEAN}
VersionLists == UNION {[1..n -> Versions] : n \in 0..MaxVersions}

\* the CustomResourceDefinition objects presented to a component
Definitions ==
    { [Group |-> gk[1], Kind |-> gk[2], Versions |-> vs] :
        gk \in {<<"custom.io", "CustomResource">>, <<"other.io", "OtherResource">>},
        vs \in VersionLists }

\* a client.Object that is not a CustomResourceDefinition
NotADefinition == [Kind |-> "ConfigMap"]
Objects == Definitions \cup {NotADefinition}
IsDefinition(obj) == "Versions" \in DOMAIN obj

\* the kinds handed to MarkWatchRegistered
MarkedGVKs ==
    {WatchesA[1], WatchesB[1], WatchesB[2], GVK("other.io", "v1alpha1", "OtherResource")}

\* a version lookup that takes the first listed version, served or not
getServedVersionFirst(crd) ==
    IF Len(crd.Versions) > 0 THEN crd.Versions[1].Name ELSE ""

\* a version lookup that takes the last served version
getServedVersionLast(crd) ==
    LET served == {i \in 1..Len(crd.Versions) : crd.Versions[i].Served}
    IN IF served # {}
         THEN crd.Versions[CHOOSE i \in served : \A j \in served : i >= j].Name
       ELSE IF Len(crd.Versions) > 0 THEN crd.Versions[1].Name
       ELSE ""

\* getServedVersion(crd): the first served version, else the first listed
\* version, else the empty string
getServedVersion(crd) ==
    LET served == {i \in 1..Len(crd.Versions) : crd.Versions[i].Served}
    IN IF served # {}
         THEN crd.Versions[CHOOSE i \in served : \A j \in served : i <= j].Name
       ELSE IF Len(crd.Versions) > 0 THEN crd.Versions[1].Name
       ELSE ""

\* crdGVK of HasPendingWatchForCRD and RegisterPendingWatch
crdGVK(crd) == GVK(crd.Group, getServedVersion(crd), crd.Kind)

\* c.HasPendingWatches()
HasPendingWatchesOf(c) == c.pendingWatches # {}

\* c.HasPendingWatchForCRD(crd): pending, exists := c.pendingWatches[crdGVK]
HasPendingWatchForCRDOf(c, crd) == crdGVK(crd) \in c.pendingWatches

\* c.MarkWatchRegistered(gvk): delete(c.pendingWatches, gvk)
MarkWatchRegisteredOf(c, gvk) == [c EXCEPT !.pendingWatches = @ \ {gvk}]

\* a mapping that asks for a reconcile on every definition
MapCRDToComponentEager(c, obj) ==
    IF ~IsDefinition(obj) THEN <<>>
    ELSE <<[Name |-> c.ChartName]>>

\* c.MapCRDToComponent(ctx, obj): the reconcile requests returned
MapCRDToComponentOf(c, obj) ==
    IF ~IsDefinition(obj) THEN <<>>
    ELSE IF ~HasPendingWatchForCRDOf(c, obj) THEN <<>>
    ELSE <<[Name |-> c.ChartName]>>

\* m.WatchCount() of the controller
WatchCount(k) == Len(k.watches)

\* a promotion that refuses a definition no pending descriptor matches
RegisterPendingWatchStrict(c, k, crd) ==
    IF ~HasPendingWatchForCRDOf(c, crd)
      THEN [err |-> Err("ErrWatchRegistration", {"no pending watch"}), c |-> c, ctrl |-> k]
      ELSE [err |-> NoErr, c |-> MarkWatchRegisteredOf(c, crdGVK(crd)), ctrl |-> k]

\* c.RegisterPendingWatch(crd, ctrl, handler): the error returned, the
\* component and the controller it leaves.  The controller is not called.
RegisterPendingWatchOutcome(c, k, crd) ==
    IF ~HasPendingWatchForCRDOf(c, crd)
      THEN [err |-> NoErr, c |-> c, ctrl |-> k]
      ELSE [err |-> NoErr, c |-> MarkWatchRegisteredOf(c, crdGVK(crd)), ctrl |-> k]

\* a test that takes every group for a built-in one
isBuiltInTypeAny(gvk) == TRUE

\* isBuiltInType(gvk)
isBuiltInType(gvk) ==
    gvk.Group \in {"", "apps", "batch", "networking.k8s.io", "policy",
                   "rbac.authorization.k8s.io"}

\* c.registerWatch(ctrl, gvk, handler): returns nil and leaves the controller
\* as it was
registerWatch(k, gvk) == [err |-> NoErr, ctrl |-> k]

\* the loop of AddWatches from descriptor i on; reg collects the kinds whose
\* registerWatch returned nil
RECURSIVE AddWatchesLoop(_, _, _, _)
AddWatchesLoop(c, k, i, reg) ==
    IF i > Len(c.Watches)
      THEN [err |-> NoErr, c |-> c, ctrl |-> k, registered |-> reg]
      ELSE LET gvk == c.Watches[i]
           IN IF isBuiltInType(gvk)
                THEN LET r == registerWatch(k, gvk)
                     IN IF r.err # NoErr
                          THEN AddWatchesLoop(c, r.ctrl, i + 1, reg)
                          ELSE AddWatchesLoop(c, r.ctrl, i + 1, reg \cup {gvk})
                ELSE AddWatchesLoop([c EXCEPT !.pendingWatches = @ \cup {gvk}],
                                    k, i + 1, reg)

\* c.AddWatches(ctrl, handler)
AddWatchesOutcome(c, k) == AddWatchesLoop(c, k, 1, {})

\* the descriptors of component c
Descriptors(c) == {c.Watches[i] : i \in 1..Len(c.Watches)}

\* what a watch call saw and left: the pending set and the watch count
WatchView(c, k) == [pending |-> c.pendingWatches, count |-> WatchCount(k)]

\* the catalog with component n replaced
WithComponent(n, c) == [components EXCEPT ![n] = c]

AddWatches(n) ==
    /\ last = NoCall
    /\ LET out == AddWatchesOutcome(components[n], ctrl)
       IN /\ components' = WithComponent(n, out.c)
          /\ ctrl' = out.ctrl
          /\ activated' = activated \cup {<<n, gvk>> : gvk \in out.registered}
          /\ last' = [op |-> "AddWatches", name |-> n, err |-> out.err,
                      before |-> WatchView(components[n], ctrl),
                      after |-> WatchView(out.c, out.ctrl)]
    /\ UNCHANGED <<heap, loaded, prev, th, crashed, crds, phase, locks, cluster>>

HasPendingWatches(n) ==
    /\ last = NoCall
    /\ last' = [op |-> "HasPendingWatches", name |-> n,
                result |-> HasPendingWatchesOf(components[n])]
    /\ UNCHANGED <<components, heap, loaded, prev, th, crashed, opVars>>

HasPendingWatchForCRD(n, crd) ==
    /\ last = NoCall
    /\ last' = [op |-> "HasPendingWatchForCRD", name |-> n, crd |-> crd,
                result |-> HasPendingWatchForCRDOf(components[n], crd)]
    /\ UNCHANGED <<components, heap, loaded, prev, th, crashed, opVars>>

MarkWatchRegistered(n, gvk) ==
    /\ last = NoCall
    /\ components' = WithComponent(n, MarkWatchRegisteredOf(components[n], gvk))
    /\ activated' = IF gvk \in Descriptors(components[n])
                      THEN activated \cup {<<n, gvk>>} ELSE activated
    /\ last' = [op |-> "MarkWatchRegistered", name |-> n, gvk |-> gvk]
    /\ UNCHANGED <<heap, loaded, prev, th, crashed, ctrl, crds, phase, locks, cluster>>

MapCRDToComponent(n, obj) ==
    /\ last = NoCall
    /\ last' = [op |-> "MapCRDToComponent", name |-> n, obj |-> obj,
                requests |-> MapCRDToComponentOf(components[n], obj),
                before |-> WatchView(components[n], ctrl)]
    /\ UNCHANGED <<components, heap, loaded, prev, th, crashed, opVars>>

\* one RegisterPendingWatch call on component n: the new state and its record
Promote(n, crd, op) ==
    LET out == RegisterPendingWatchOutcome(components[n], ctrl, crd)
        promoted == HasPendingWatchForCRDOf(components[n], crd) /\ out.err = NoErr
    IN /\ components' = WithComponent(n, out.c)
       /\ ctrl' = out.ctrl
       /\ activated' = IF promoted THEN activated \cup {<<n, crdGVK(crd)>>}
                       ELSE activated
       /\ last' = [op |-> op, name |-> n, crd |-> crd, err |-> out.err,
                   before |-> WatchView(components[n], ctrl),
                   after |-> WatchView(out.c, out.ctrl),
                   first |-> IF op = "RegisterPendingWatch" THEN NoCall ELSE last]

RegisterPendingWatch(n, crd) ==
    /\ last = NoCall
    /\ Promote(n, crd, "RegisterPendingWatch")
    /\ UNCHANGED <<heap, loaded, prev, th, crashed, crds, phase, locks, cluster>>

\* the caller presents the same definition to the same component once more
RegisterPendingWatchAgain ==
    /\ last.op = "RegisterPendingWatch"
    /\ Promote(last.name, last.crd, "RegisterPendingWatchAgain")
    /\ UNCHANGED <<heap, loaded, prev, th, crashed, crds, phase, locks, cluster>>

\* two components registered at startup, each with its own descriptors
WatchInit ==
    /\ \E cfg1, cfg2 \in {cfg \in StartupConfigs : cfg.ChartName = "chartB"} :
         LET r == Startup(cfg1, cfg2)
         IN /\ components = r.comps
            /\ heap = r.h
            /\ loaded = [n \in DOMAIN r.comps |-> TreesOf(r.h, r.comps[n])]
    /\ last = NoCall
    /\ prev = NoCall
    /\ th = [w \in Workers |-> IdleWorker]
    /\ crashed = FALSE
    /\ NoOperator

WatchNext ==
    \/ \E n \in DOMAIN components : AddWatches(n)
    \/ \E n \in DOMAIN components : HasPendingWatches(n)
    \/ \E n \in DOMAIN components, crd \in Definitions : HasPendingWatchForCRD(n, crd)
    \/ \E n \in DOMAIN components, gvk \in MarkedGVKs : MarkWatchRegistered(n, gvk)
    \/ \E n \in DOMAIN components, obj \in Objects : MapCRDToComponent(n, obj)
    \/ \E n \in DOMAIN components, crd \in Definitions : RegisterPendingWatch(n, crd)
    \/ RegisterPendingWatchAgain
    \/ Return

SpecWatch == WatchInit /\ [][WatchNext]_vars

----------------------------------------------------------------------------
(* Properties of the watch calls (specification SpecWatch) *)

\* the component the call in `last` was made on
Callee == components[last.name]

\* the first served version of a version list from position i on, "" if none
RECURSIVE FirstServedFrom(_, _)
FirstServedFrom(vs, i) ==
    IF i > Len(vs) THEN ""
    ELSE IF vs[i].Served THEN vs[i].Name
    ELSE FirstServedFrom(vs, i + 1)

ServesAVersion(crd) == \E i \in 1..Len(crd.Versions) : crd.Versions[i].Served

\* the tuple of a definition by its served version
ServedTuple(crd) == GVK(crd.Group, FirstServedFrom(crd.Versions, 1), crd.Kind)

\* the tuple of a definition by its first served version, or by its first
\* listed version when it serves none
PresentedTuple(crd) ==
    IF ServesAVersion(crd) \/ Len(crd.Versions) = 0 THEN ServedTuple(crd)
    ELSE GVK(crd.Group, crd.Versions[1].Name, crd.Kind)

\* a definition that has exactly the (group, version, kind) of descriptor d
SameTuple(crd, d) ==
    /\ crd.Group = d.Group
    /\ crd.Kind = d.Kind
    /\ crd.Versions = <<[Name |-> d.Version, Served |-> TRUE]>>

\* C15: a descriptor that has once become active is never pending again,
\* whatever watch calls follow, AddWatches after a promotion included.
ActiveNeverPendingAgain ==
    \A n \in DOMAIN components :
        \A d \in Descriptors(components[n]) :
            <<n, d>> \in activated => d \notin components[n].pendingWatches

\* C16: a registered component answers HasPendingWatchForCRD with true for
\* a definition that has the (group, version, kind) of one of its
\* descriptors, as long as it has not promoted that descriptor, and without
\* any other call having been made first.
RegisteredStartsPending ==
    last.op = "HasPendingWatchForCRD" =>
        \A d \in Descriptors(Callee) :
            (SameTuple(last.crd, d) /\ <<last.name, d>> \notin activated)
                => last.result = TRUE

PromotionIdempotent ==
    last.op = "RegisterPendingWatchAgain" =>
        LET d == PresentedTuple(last.crd)
        IN /\ last.first.err = NoErr
           /\ last.err = NoErr
           /\ d \notin last.first.after.pending
           /\ d \notin last.after.pending
           /\ (d \in last.first.before.pending => <<last.name, d>> \in activated)
           /\ last.after = last.before
           /\ last.before = last.first.after

\* the first of the two calls promoted a pending descriptor
PromotionIdempotentWitness ==
    /\ last.op = "RegisterPendingWatchAgain"
    /\ PresentedTuple(last.crd) \in last.first.before.pending

\* C20: every transition to active installs a watch: after AddWatches the
\* controller has at least one watch per built-in type the component
\* watches, and a RegisterPendingWatch that promotes a pending descriptor
\* strictly increases the controller's watch count.
ActivationInstallsWatch ==
    /\ last.op = "AddWatches" =>
         last.after.count >=
             Cardinality({d \in Descriptors(Callee) : isBuiltInType(d)})
    /\ last.op \in {"RegisterPendingWatch", "RegisterPendingWatchAgain"} =>
         (PresentedTuple(last.crd) \in last.before.pending
             => last.after.count > last.before.count)

----------------------------------------------------------------------------
(* The operator process (specifications SpecOperator and SpecOperatorFair): *)
(* the init() functions register the components, SetupWithManager builds    *)
(* each reconciler's controller and calls AddWatches, and from then on the  *)
(* reconcilers render while resource-type definitions appear in the         *)
(* cluster.  Nothing in the process calls MapCRDToComponent or              *)
(* RegisterPendingWatch, and AddWatches installs no watcher for             *)
(* definitions, so the process has no step that reacts to a definition.     *)

\* the configs the init() functions may find themselves registering: the
\* chart may be packaged, unpacked, broken or missing from the image
BootConfigs == {cfg \in Configs : cfg.ChartName \in {"chartA", "chartB", "chartC", "missing"}}

\* the registrations the init() functions perform, in order
BootLists == {<<[name |-> "c1", config |-> cfg1], [name |-> "c2", config |-> cfg2]>> :
                cfg1, cfg2 \in BootConfigs}

\* the definitions that can appear in the cluster
ClusterDefinitions ==
    { [Group |-> "custom.io", Kind |-> "CustomResource",
       Versions |-> <<[Name |-> "v1alpha1", Served |-> TRUE]>>],
      [Group |-> "other.io", Kind |-> "OtherResource",
       Versions |-> <<[Name |-> "v1alpha1", Served |-> TRUE]>>] }

\* an init() that logs a failed registration and goes on
initStepLogOnly(ph, err) ==
    LET failed == ph.failed \/ err # NoErr
    IN IF ph.i = Len(ph.boot)
         THEN [ph EXCEPT !.pc = "setup", !.i = @ + 1, !.failed = failed]
         ELSE [ph EXCEPT !.i = @ + 1, !.failed = failed]

\* init(): log.Fatalf on a registration error ends the process; otherwise the
\* next init() runs, and after the last one main goes on to set up the
\* controllers
initStep(ph, err) ==
    IF err # NoErr THEN [ph EXCEPT !.pc = "exited", !.failed = TRUE]
    ELSE IF ph.i = Len(ph.boot) THEN [ph EXCEPT !.pc = "setup", !.i = @ + 1]
    ELSE [ph EXCEPT !.i = @ + 1]

OperatorInit ==
    /\ components = <<>>
    /\ heap = <<>>
    /\ loaded = <<>>
    /\ last = NoCall
    /\ prev = NoCall
    /\ th = [w \in Workers |-> IdleWorker]
    /\ crashed = FALSE
    /\ ctrl = NoController
    /\ activated = {}
    /\ crds = {}
    /\ locks = NoLocks
    /\ cluster = NoCluster
    /\ \E boot \in BootLists :
         phase = [pc |-> "init", boot |-> boot, i |-> 1,
                  setup |-> {boot[j].name : j \in DOMAIN boot}, failed |-> FALSE]

\* the next init() function
StartupRegister ==
    /\ phase.pc = "init"
    /\ LET b == phase.boot[phase.i]
           out == RegisterOutcome(components, heap, b.name, b.config)
       IN /\ components' = out.comps
          /\ heap' = out.h
          /\ loaded' = [n \in DOMAIN out.comps |->
                          IF n \in DOMAIN loaded THEN loaded[n]
                          ELSE TreesOf(out.h, out.comps[n])]
          /\ phase' = initStep(phase, out.err)
    /\ UNCHANGED <<last, prev, th, crashed, ctrl, activated, crds, locks, cluster>>

\* r.SetupWithManager(mgr) of the reconciler of component n
SetupWithManager(n) ==
    /\ phase.pc = "setup"
    /\ n \in phase.setup
    /\ IF ~GetComponentOf(components, n).exists
         THEN /\ phase' = [phase EXCEPT !.pc = "exited"]
              /\ UNCHANGED <<components, ctrl, activated>>
         ELSE LET out == AddWatchesOutcome(components[n], ctrl)
              IN /\ components' = WithComponent(n, out.c)
                 /\ ctrl' = out.ctrl
                 /\ activated' = activated \cup {<<n, gvk>> : gvk \in out.registered}
                 /\ phase' = [phase EXCEPT !.setup = @ \ {n},
                                !.pc = IF phase.setup = {n} THEN "serving" ELSE @]
    /\ UNCHANGED <<heap, loaded, last, prev, th, crashed, crds, locks, cluster>>

\* Reconcile: HelmManagedComponents.Render(name, spec)
Reconcile(name, spec) ==
    /\ phase.pc = "serving"
    /\ Render(name, spec)

\* a reconciler looks its component up
Lookup(name) ==
    /\ phase.pc = "serving"
    /\ GetComponent(name)

\* a resource-type definition is created in the cluster
DefinitionCreated(crd) ==
    /\ phase.pc = "serving"
    /\ crd \notin crds
    /\ crds' = crds \cup {crd}
    /\ UNCHANGED <<components, heap, loaded, last, prev, th, crashed, ctrl, activated, phase, locks, cluster>>

OperatorNext ==
    \/ StartupRegister
    \/ \E n \in Names : SetupWithManager(n)
    \/ \E name \in Names, spec \in ComponentSpecs : Reconcile(name, spec)
    \/ \E name \in Names : Lookup(name)
    \/ \E crd \in ClusterDefinitions : DefinitionCreated(crd)
    \/ Return

SpecOperator == OperatorInit /\ [][OperatorNext]_vars

\* the process keeps taking the steps it can take
SpecOperatorFair == SpecOperator /\ WF_vars(OperatorNext)

----------------------------------------------------------------------------
(* Properties of the operator process *)

\* C11: startup is all-or-nothing: once a startup registration has failed
\* the process has terminated, the serving state is only reached with every
\* startup registration in the catalog, and a Render or GetComponent is
\* only ever answered while serving, never after a failed registration.
StartupAllOrNothing ==
    /\ phase.failed => phase.pc = "exited"
    /\ phase.pc = "serving" =>
         /\ ~phase.failed
         /\ \A j \in DOMAIN phase.boot : phase.boot[j].name \in DOMAIN components
    /\ last.op \in {"Render", "GetComponent"} =>
         phase.pc = "serving" /\ ~phase.failed

\* the second init() failed after the first had filled the catalog, and the
\* process is gone
StartupFailedWitness ==
    /\ phase.failed
    /\ phase.pc = "exited"
    /\ phase.i = 2
    /\ DOMAIN components = {"c1"}

\* C19: deferred watches self-heal: whenever a component has a pending
\* descriptor and a definition with its (group, version, kind) exists in the
\* cluster, the descriptor eventually becomes active (which the claim
\* requires together with a requested reconciliation).
DeferredWatchSelfHeals ==
    \A n \in {"c1", "c2"} : \A crd \in ClusterDefinitions :
        (/\ n \in DOMAIN components
         /\ crd \in crds
         /\ PresentedTuple(crd) \in components[n].pendingWatches)
          ~> (/\ <<n, PresentedTuple(crd)>> \in activated
              /\ PresentedTuple(crd) \notin components[n].pendingWatches)

----------------------------------------------------------------------------
(* Properties of the loader (specification Spec) *)

\* the fold of component values C onto chart defaults D, both given flat
FoldOnto(D, C) ==
    LET hD == LoadTree(D, DOwner(""))
        hC == LoadTree(C, COwner(""))
        f == ComponentFold(HeapAdd(hD, hC), Obj(DOwner(""), <<>>), Obj(COwner(""), <<>>))
    IN Flat(f.h, f.ref)

\* the chart ships no platform-override file, or one that does not parse
NoUsableOverrides(chart) ==
    /\ chart \in Packaged \cup Unpacked
    /\ ChartRHOAIFile(chart).kind \in {"none", "invalid"}

----------------------------------------------------------------------------
(* Properties of the catalog (specification Spec) *)

\* the position of a name in sorted order
NameRank(n) == CASE n = "" -> 0 [] n = "c1" -> 1 [] n = "c2" -> 2 [] OTHER -> 3

\* C21: ListComponents returns exactly the registered names, each once, in
\* sorted order (so that two calls on an unchanged catalog return the same
\* sequence).
ListSortedSnapshot ==
    last.op = "ListComponents" =>
        /\ {last.names[i] : i \in DOMAIN last.names} = DOMAIN components
        /\ Len(last.names) = Cardinality(DOMAIN components)
        /\ \A i, j \in DOMAIN last.names :
             i < j => NameRank(last.names[i]) < NameRank(last.names[j])

\* the fields of a registration that make it the registration it is: the
\* component the catalog points to, without its pending-watch set
Registration(c) ==
    [ChartName |-> c.ChartName, ValuesGenerator |-> c.ValuesGenerator,
     Watches |-> c.Watches, Chart |-> c.Chart, Values |-> c.Values,
     RHOAIValues |-> c.RHOAIValues]

\* C22: the catalog is append-only.  No step removes or replaces an entry;
\* the only step that adds one is a Register that returns no error, and it
\* adds the name it was given; GetComponent changes nothing and reports
\* found exactly for the names in the catalog, which are therefore the names
\* registered successfully so far, each with the registration it was given.
CatalogAppendOnly ==
    [][/\ \A n \in DOMAIN components :
            /\ n \in DOMAIN components'
            /\ Registration(components'[n]) = Registration(components[n])
       /\ DOMAIN components' # DOMAIN components =>
            /\ last'.op = "Register" /\ last'.err = NoErr
            /\ DOMAIN components' = DOMAIN components \cup {last'.name}
       /\ (last'.op = "Register" /\ last'.err = NoErr) =>
            /\ last'.name \notin DOMAIN components
            /\ last'.name \in DOMAIN components'
       /\ last'.op = "GetComponent" =>
            /\ components' = components /\ heap' = heap /\ loaded' = loaded
            /\ last'.got.exists = (last'.name \in DOMAIN components)
            /\ last'.got.exists => last'.got.component = components[last'.name]
      ]_vars

\* GetComponent has found the first registration after a second one was added
CatalogAppendOnlyWitness ==
    /\ last.op = "GetComponent"
    /\ last.got.exists
    /\ last.name = "c1"
    /\ DOMAIN components = {"c1", "c2"}

RegisterErrorNamesBoth ==
    (/\ last.op = "Register"
     /\ last.err # NoErr
     /\ last.name # ""
     /\ last.config.ChartName # "")
      => {last.name, last.config.ChartName} \subseteq last.err.mentions

----------------------------------------------------------------------------
(* Registry and watch calls from several goroutines, with their locks       *)
(* (specification SpecLocks).  Every method is taken one lock operation and *)
(* one critical section at a time.  A worker record holds the call (op,     *)
(* name, arg), where it is (pc, at), the lock it is acquiring, the locks it *)
(* holds, and what the call returned.                                       *)

\* the methods that lock r.mu, and those that lock c.watchesMutex
RegistryOps == {"Register", "GetComponent", "ListComponents", "Render"}
WatchOps == {"HasPendingWatches", "HasPendingWatchForCRD", "MapCRDToComponent",
             "MarkWatchRegistered", "RegisterPendingWatch", "AddWatches"}

\* the configs the concurrent Register calls are given: two valid ones, one
\* without a generator, one whose chart is missing
LockConfigs ==
    {cfg \in Configs :
        \/ cfg.ChartName = "chartB" /\ cfg.ValuesGenerator \in {"genB", NoGen}
        \/ cfg.ChartName = "chartD" /\ cfg.ValuesGenerator = "genA"
        \/ cfg.ChartName = "missing" /\ cfg.ValuesGenerator = "genB"}

\* watch methods that lock the catalog
WatchLockCatalog(name) == CatalogLock

\* c.watchesMutex of the component registered as `name`
WatchLock(name) == <<"watchesMutex", name>>

\* the lock a method takes
LockOfOp(op, name) == IF op \in RegistryOps THEN CatalogLock ELSE WatchLock(name)

\* a Lock() that does not wait
CanLockAlways(l) == TRUE

\* sync.RWMutex: Lock() goes through when there is no writer and no reader;
\* RLock() when there is no writer and no goroutine waiting in Lock()
CanLock(l) == l.w = 0 /\ l.r = {}
CanRLock(l, waiting) == l.w = 0 /\ waiting = {}

\* the goroutines other than w that have called Lock() on L and wait
PendingWriters(L, w) ==
    {v \in Workers \ {w} :
        th[v].pc = "acquire" /\ th[v].lock = L /\ th[v].mode = "Lock" /\ ~CanLock(locks[L])}

\* worker w, about to lock, cannot go on
Blocked(w) ==
    /\ th[w].pc = "acquire"
    /\ IF th[w].mode = "Lock" THEN ~CanLock(locks[th[w].lock])
       ELSE ~CanRLock(locks[th[w].lock], PendingWriters(th[w].lock, w))

\* lock L after w has taken it, and after w has let go of it
Taken(l, w, mode) == IF mode = "Lock" THEN [l EXCEPT !.w = w] ELSE [l EXCEPT !.r = @ \cup {w}]
Released(l, w) == [w |-> IF l.w = w THEN 0 ELSE l.w, r |-> l.r \ {w}]

\* the first critical section of a method
BodyOf(op) ==
    CASE op = "Register" -> "checks"
      [] op \in {"GetComponent", "Render"} -> "read"
      [] op = "ListComponents" -> "range"
      [] op = "HasPendingWatches" -> "len"
      [] op = "MarkWatchRegistered" -> "delete"
      [] op = "AddWatches" -> "init"
      [] OTHER -> "lookup"

\* a call that has just been made: it is at its first lock operation
Caller(op, name, arg) ==
    [pc |-> "acquire", op |-> op, name |-> name, arg |-> arg, at |-> BodyOf(op),
     lock |-> LockOfOp(op, name),
     mode |-> IF op \in {"Register", "MarkWatchRegistered", "AddWatches"} THEN "Lock" ELSE "RLock",
     held |-> {}, i |-> 1, found |-> FALSE, res |-> NoCall,
     fresh |-> name \notin DOMAIN components]

\* the call of worker record t returns res, every deferred unlock done
Returns(t, res) == [t EXCEPT !.pc = "done", !.res = res, !.held = {}]

\* the locks once worker w has released all it holds
ReleaseAll(w) == [L \in LockIds |-> IF L \in th[w].held THEN Released(locks[L], w) ELSE locks[L]]

\* a Register that looks for a duplicate before it validates
RegisterChecksDuplicateFirst(comps, name, config) ==
    LET v == validateComponentConfig(config)
    IN IF name \in DOMAIN comps THEN Err("ErrDuplicateComponent", {name})
       ELSE IF v # NoErr THEN Err("ErrInvalidConfig", v.mentions)
       ELSE NoErr

\* Register up to the chart load: validation, then the duplicate check
RegisterChecks(comps, name, config) ==
    LET v == validateComponentConfig(config)
    IN IF v # NoErr THEN Err("ErrInvalidConfig", v.mentions)
       ELSE IF name \in DOMAIN comps THEN Err("ErrDuplicateComponent", {name})
       ELSE NoErr

\* a goroutine calls a method
Call(w, op, name, arg) ==
    /\ ~crashed
    /\ th[w].pc = "idle"
    /\ op \in WatchOps => name \in DOMAIN components
    /\ th' = [th EXCEPT ![w] =
                IF op = "MapCRDToComponent" /\ ~IsDefinition(arg)
                  THEN Returns(Caller(op, name, arg), [requests |-> <<>>])
                  ELSE Caller(op, name, arg)]
    /\ UNCHANGED <<components, heap, loaded, last, prev, crashed, opVars>>

\* mu.Lock(), mu.RLock(), watchesMutex.Lock(), watchesMutex.RLock()
Acquire(w) ==
    /\ th[w].pc = "acquire"
    /\ LET L == th[w].lock
       IN /\ IF th[w].mode = "Lock" THEN CanLock(locks[L])
             ELSE CanRLock(locks[L], PendingWriters(L, w))
          /\ locks' = [locks EXCEPT ![L] = Taken(@, w, th[w].mode)]
          /\ th' = [th EXCEPT ![w] = [@ EXCEPT !.pc = "body", !.held = @ \cup {L}]]
    /\ UNCHANGED <<components, heap, loaded, last, prev, crashed, ctrl, activated, crds, phase, cluster>>

\* Register: validateComponentConfig and the duplicate check
RegisterCheck(w) ==
    /\ th[w].pc = "body" /\ th[w].at = "checks"
    /\ LET err == RegisterChecks(components, th[w].name, th[w].arg)
       IN IF err # NoErr
            THEN /\ th' = [th EXCEPT ![w] = Returns(@, [err |-> err])]
                 /\ locks' = ReleaseAll(w)
            ELSE /\ th' = [th EXCEPT ![w] = [@ EXCEPT !.at = "load"]]
                 /\ locks' = locks
    /\ UNCHANGED <<components, heap, loaded, last, prev, crashed, ctrl, activated, crds, phase, cluster>>

\* Register: component.LoadChart(config.ChartName)
RegisterLoad(w) ==
    /\ th[w].pc = "body" /\ th[w].at = "load"
    /\ LET ld == LoadChart(th[w].arg.ChartName, th[w].name)
       IN IF ld.err # NoErr
            THEN /\ th' = [th EXCEPT ![w] =
                             Returns(@, [err |-> Err("ErrChartLoadFailed", ld.err.mentions)])]
                 /\ locks' = ReleaseAll(w)
            ELSE /\ th' = [th EXCEPT ![w] = [@ EXCEPT !.at = "store"]]
                 /\ locks' = locks
    /\ UNCHANGED <<components, heap, loaded, last, prev, crashed, ctrl, activated, crds, phase, cluster>>

\* Register: r.components[name] = component; return nil
RegisterStore(w) ==
    /\ th[w].pc = "body" /\ th[w].at = "store"
    /\ LET name == th[w].name
           config == th[w].arg
           ld == LoadChart(config.ChartName, name)
           component == [ChartName |-> config.ChartName,
                         ValuesGenerator |-> config.ValuesGenerator,
                         Watches |-> config.Watches,
                         Chart |-> ld.Chart, Values |-> ld.Values,
                         RHOAIValues |-> ld.RHOAIValues, pendingWatches |-> {}]
           comps == [n \in DOMAIN components \cup {name} |->
                       IF n = name THEN component ELSE components[n]]
           h == HeapAdd(heap, ld.objs)
       IN /\ components' = comps
          /\ heap' = h
          /\ loaded' = [n \in DOMAIN comps |->
                          IF n = name THEN TreesOf(h, component) ELSE loaded[n]]
          /\ th' = [th EXCEPT ![w] = Returns(@, [err |-> NoErr])]
          /\ locks' = ReleaseAll(w)
    /\ UNCHANGED <<last, prev, crashed, ctrl, activated, crds, phase, cluster>>

\* GetComponent and ListComponents under mu.RLock; Render goes on without it
CatalogRead(w) ==
    /\ th[w].pc = "body" /\ th[w].at \in {"read", "range"}
    /\ \E names \in Orders(DOMAIN components) :
         LET got == GetComponentOf(components, th[w].name)
         IN th' = [th EXCEPT ![w] =
              IF th[w].op = "ListComponents" THEN Returns(@, [names |-> names])
              ELSE IF th[w].op = "GetComponent" THEN Returns(@, [got |-> got])
              ELSE IF ~got.exists
                THEN Returns(@, [err |-> Err("ErrComponentNotFound", {th[w].name})])
              ELSE [@ EXCEPT !.at = "render", !.held = {}]]
    /\ locks' = ReleaseAll(w)
    /\ UNCHANGED <<components, heap, loaded, last, prev, crashed, ctrl, activated, crds, phase, cluster>>

\* Render after GetComponent: the generator, MergeValues, RenderTemplates
RenderRest(w) ==
    /\ th[w].pc = "body" /\ th[w].at = "render"
    /\ LET out == RenderOutcome(components, heap, th[w].name, th[w].arg, w)
       IN /\ th' = [th EXCEPT ![w] = Returns(@, [err |-> out.err])]
          /\ heap' = Persistent(out.h, DOMAIN heap)
    /\ UNCHANGED <<components, loaded, last, prev, crashed, opVars>>

\* HasPendingWatches, HasPendingWatchForCRD, and the HasPendingWatchForCRD
\* call of MapCRDToComponent and of RegisterPendingWatch
PendingRead(w) ==
    /\ th[w].pc = "body" /\ th[w].at \in {"len", "lookup"}
    /\ LET c == components[th[w].name]
           found == IF th[w].at = "len" THEN HasPendingWatchesOf(c)
                    ELSE HasPendingWatchForCRDOf(c, th[w].arg)
       IN th' = [th EXCEPT ![w] =
            IF th[w].op = "RegisterPendingWatch"
              THEN IF found
                     THEN [@ EXCEPT !.pc = "acquire", !.at = "delete", !.mode = "Lock",
                                    !.held = {}, !.found = TRUE]
                     ELSE Returns(@, [err |-> NoErr])
            ELSE IF th[w].op = "MapCRDToComponent"
              THEN Returns([@ EXCEPT !.found = found],
                           [requests |-> MapCRDToComponentOf(c, th[w].arg)])
            ELSE Returns([@ EXCEPT !.found = found], [result |-> found])]
    /\ locks' = ReleaseAll(w)
    /\ UNCHANGED <<components, heap, loaded, last, prev, crashed, ctrl, activated, crds, phase, cluster>>

\* MarkWatchRegistered, called directly or by RegisterPendingWatch
PendingDelete(w) ==
    /\ th[w].pc = "body" /\ th[w].at = "delete"
    /\ LET n == th[w].name
           gvk == IF th[w].op = "RegisterPendingWatch" THEN crdGVK(th[w].arg) ELSE th[w].arg
       IN /\ components' = WithComponent(n, MarkWatchRegisteredOf(components[n], gvk))
          /\ activated' = IF gvk \in Descriptors(components[n])
                            THEN activated \cup {<<n, gvk>>} ELSE activated
    /\ th' = [th EXCEPT ![w] = Returns(@, [err |-> NoErr])]
    /\ locks' = ReleaseAll(w)
    /\ UNCHANGED <<heap, loaded, last, prev, crashed, ctrl, crds, phase, cluster>>

\* AddWatches: the pending map is made if it is nil
AddWatchesInit(w) ==
    /\ th[w].pc = "body" /\ th[w].at = "init"
    /\ th' = [th EXCEPT ![w] = [@ EXCEPT !.at = "next", !.held = {}]]
    /\ locks' = ReleaseAll(w)
    /\ UNCHANGED <<components, heap, loaded, last, prev, crashed, ctrl, activated, crds, phase, cluster>>

\* AddWatches: the next descriptor of the loop, taken without a lock
AddWatchesNext(w) ==
    /\ th[w].pc = "body" /\ th[w].at = "next"
    /\ LET c == components[th[w].name]
           i == th[w].i
       IN IF i > Len(c.Watches)
            THEN /\ th' = [th EXCEPT ![w] = Returns(@, [err |-> NoErr])]
                 /\ UNCHANGED <<ctrl, activated>>
          ELSE IF isBuiltInType(c.Watches[i])
            THEN LET r == registerWatch(ctrl, c.Watches[i])
                 IN /\ ctrl' = r.ctrl
                    /\ activated' = IF r.err = NoErr
                                      THEN activated \cup {<<th[w].name, c.Watches[i]>>}
                                      ELSE activated
                    /\ th' = [th EXCEPT ![w] = [@ EXCEPT !.i = @ + 1]]
          ELSE /\ th' = [th EXCEPT ![w] = [@ EXCEPT !.pc = "acquire", !.at = "set",
                                                    !.mode = "Lock"]]
               /\ UNCHANGED <<ctrl, activated>>
    /\ UNCHANGED <<components, heap, loaded, last, prev, crashed, crds, phase, locks, cluster>>

\* AddWatches: c.pendingWatches[gvk] = true
AddWatchesSet(w) ==
    /\ th[w].pc = "body" /\ th[w].at = "set"
    /\ LET n == th[w].name
           gvk == components[n].Watches[th[w].i]
       IN components' = WithComponent(n, [components[n] EXCEPT !.pendingWatches = @ \cup {gvk}])
    /\ th' = [th EXCEPT ![w] = [@ EXCEPT !.at = "next", !.i = @ + 1, !.held = {}]]
    /\ locks' = ReleaseAll(w)
    /\ UNCHANGED <<heap, loaded, last, prev, crashed, ctrl, activated, crds, phase, cluster>>

LocksInit ==
    /\ components = <<>>
    /\ heap = <<>>
    /\ loaded = <<>>
    /\ last = NoCall
    /\ prev = NoCall
    /\ th = [w \in Workers |-> IdleWorker]
    /\ crashed = FALSE
    /\ NoOperator

LocksNext ==
    \/ \E w \in Workers, name \in {"c1", "c2"} :
         \/ \E config \in LockConfigs : Call(w, "Register", name, config)
         \/ Call(w, "GetComponent", name, name)
         \/ Call(w, "Render", name, 1)
         \/ Call(w, "HasPendingWatches", name, name)
         \/ Call(w, "AddWatches", name, name)
         \/ Call(w, "MarkWatchRegistered", name, WatchesB[1])
         \/ \E crd \in ClusterDefinitions :
              \/ Call(w, "HasPendingWatchForCRD", name, crd)
              \/ Call(w, "RegisterPendingWatch", name, crd)
         \/ \E obj \in ClusterDefinitions \cup {NotADefinition} :
              Call(w, "MapCRDToComponent", name, obj)
    \/ \E w \in Workers : Call(w, "ListComponents", "", "")
    \/ \E w \in Workers :
         \/ Acquire(w)
         \/ RegisterCheck(w) \/ RegisterLoad(w) \/ RegisterStore(w)
         \/ CatalogRead(w) \/ RenderRest(w)
         \/ PendingRead(w) \/ PendingDelete(w)
         \/ AddWatchesInit(w) \/ AddWatchesNext(w) \/ AddWatchesSet(w)
         \/ Finish(w)

SpecLocks == LocksInit /\ [][LocksNext]_vars

----------------------------------------------------------------------------
(* Properties of the locked calls (specification SpecLocks)                 *)

\* worker w is inside a call of one of the methods in ops
InCall(w, ops) == th[w].pc \in {"acquire", "body", "done"} /\ th[w].op \in ops

\* worker w has returned from a Register
Registered(w) == th[w].pc = "done" /\ th[w].op = "Register"

\* the chart of a config can be loaded
Loadable(config) == LoadChart(config.ChartName, "").err = NoErr

\* a registration whose chart and values are in place
Complete(c) == c.Chart # NoChart /\ c.Chart = c.ChartName /\ c.Values # NoObj

\* C29: Register validates the config, then looks for a duplicate name, then
\* loads the chart, all while it holds the catalog lock exclusively: an
\* invalid config is reported as ErrInvalidConfig even for a name that is
\* registered, a valid config for a registered name as ErrDuplicateComponent
\* even when its chart cannot be loaded, and a name is in the catalog only
\* once its chart has been loaded.
RegisterOrderUnderLock ==
    /\ \A w \in Workers :
         th[w].pc = "body" /\ th[w].op = "Register" =>
           /\ locks[CatalogLock] = [w |-> w, r |-> {}]
           /\ th[w].at \in {"load", "store"} =>
                /\ validateComponentConfig(th[w].arg) = NoErr
                /\ th[w].name \notin DOMAIN components
           /\ th[w].at = "store" => Loadable(th[w].arg)
    /\ \A w \in Workers :
         Registered(w) =>
           /\ validateComponentConfig(th[w].arg) # NoErr
                <=> th[w].res.err.kind = "ErrInvalidConfig"
           /\ validateComponentConfig(th[w].arg) = NoErr /\ ~th[w].fresh
                => th[w].res.err.kind = "ErrDuplicateComponent"
           /\ th[w].res.err.kind = "ErrChartLoadFailed"
                => th[w].fresh /\ ~Loadable(th[w].arg)
           /\ th[w].res.err = NoErr
                => th[w].name \in DOMAIN components /\ Loadable(th[w].arg)
    /\ \A n \in DOMAIN components : Complete(components[n])

\* two Registers have returned for a registered name: one with an invalid
\* config, one with a valid config whose chart is missing
RegisterOrderWitness ==
    \E w, v \in Workers :
      /\ Registered(w) /\ Registered(v)
      /\ ~th[w].fresh /\ ~th[v].fresh
      /\ validateComponentConfig(th[w].arg) # NoErr
      /\ th[w].res.err.kind = "ErrInvalidConfig"
      /\ validateComponentConfig(th[v].arg) = NoErr /\ ~Loadable(th[v].arg)
      /\ th[v].res.err.kind = "ErrDuplicateComponent"

\* a Register call made before its name was in the catalog, with a valid
\* config and a loadable chart, has returned
RacingRegister(w) ==
    /\ Registered(w)
    /\ th[w].fresh
    /\ validateComponentConfig(th[w].arg) = NoErr /\ Loadable(th[w].arg)

\* two such calls for one name
RacingRegisters(w, v) ==
    w # v /\ RacingRegister(w) /\ RacingRegister(v) /\ th[w].name = th[v].name

\* C30: of the Register calls that race for one name with loadable charts
\* one returns nil and every other ErrDuplicateComponent: no two return nil,
\* and once any has returned the name is in the catalog, with the
\* registration of the call that returned nil; and the component a
\* GetComponent returns is a complete registration.
OneRegisterWins ==
    /\ \A w \in Workers :
         RacingRegister(w) =>
           /\ th[w].name \in DOMAIN components
           /\ IF th[w].res.err = NoErr
                THEN /\ components[th[w].name].ChartName = th[w].arg.ChartName
                     /\ components[th[w].name].ValuesGenerator = th[w].arg.ValuesGenerator
                     /\ components[th[w].name].Watches = th[w].arg.Watches
                ELSE th[w].res.err = Err("ErrDuplicateComponent", {th[w].name})
    /\ \A w, v \in Workers :
         RacingRegisters(w, v) => ~(th[w].res.err = NoErr /\ th[v].res.err = NoErr)
    /\ \A w \in Workers :
         th[w].pc = "done" /\ th[w].op = "GetComponent" /\ th[w].res.got.exists =>
           Complete(th[w].res.got.component)

\* two Registers that raced for one name with different configs have
\* returned, one with nil and one with ErrDuplicateComponent
OneRegisterWinsWitness ==
    \E w, v \in Workers :
      /\ RacingRegisters(w, v) /\ th[w].arg # th[v].arg
      /\ th[w].res.err = NoErr /\ th[v].res.err.kind = "ErrDuplicateComponent"

\* worker w waits for a lock that worker v holds or has asked for before it
WaitsFor(w, v) ==
    /\ w # v
    /\ Blocked(w)
    /\ \/ th[v].pc \in {"body", "done"} /\ th[w].lock \in th[v].held
       \/ th[v].pc = "acquire" /\ th[v].lock = th[w].lock /\ th[v].mode = "Lock"

\* C25: a watch method of a component takes the watchesMutex of that
\* component and no other lock, so it waits only for watch methods of the
\* same component; no call holds two locks, or holds one while it waits for
\* another; and whenever a call waits for a lock some call can take a step.
WatchLocksIndependent ==
    /\ \A w \in Workers :
         th[w].pc \in {"acquire", "body"} =>
           /\ Cardinality(th[w].held) <= 1
           /\ th[w].pc = "acquire" => th[w].held = {}
           /\ th[w].held \subseteq {th[w].lock}
           /\ \A L \in LockIds : L \in th[w].held <=> (locks[L].w = w \/ w \in locks[L].r)
           /\ IF th[w].op \in WatchOps
                THEN th[w].lock # CatalogLock /\ th[w].lock[2] = th[w].name
                ELSE th[w].lock = CatalogLock
    /\ \A w \in Workers : th[w].pc \in {"idle", "done"} =>
         \A L \in LockIds : locks[L].w # w /\ w \notin locks[L].r
    /\ \A w, v \in Workers :
         WaitsFor(w, v) /\ th[w].op \in WatchOps =>
           th[v].op \in WatchOps /\ th[v].name = th[w].name
    /\ (\E w \in Workers : th[w].pc = "acquire") =>
         \E w \in Workers : th[w].pc = "body" \/ (th[w].pc = "acquire" /\ ~Blocked(w))

\* a Register holds the catalog lock while a watch method holds the lock of
\* a component
WatchLocksWitness ==
    \E w, v \in Workers :
      /\ th[w].pc = "body" /\ th[w].op = "Register"
      /\ th[v].pc = "body" /\ th[v].op \in WatchOps /\ th[v].held # {}

\* C26: of the RegisterPendingWatch calls in progress for one definition on
\* one component at most one has found the descriptor pending and goes on to
\* MarkWatchRegistered.
AtMostOnePromotes ==
    \A w, v \in Workers :
      /\ w # v
      /\ InCall(w, {"RegisterPendingWatch"}) /\ InCall(v, {"RegisterPendingWatch"})
      /\ th[w].name = th[v].name /\ th[w].arg = th[v].arg
      => ~(th[w].found /\ th[v].found)

----------------------------------------------------------------------------
(* Properties of AddWatches and of the definition lookup (specification     *)
(* SpecWatch)                                                               *)

\* the API groups of the types every cluster serves
BuiltInGroups ==
    {"", "apps", "batch", "networking.k8s.io", "policy", "rbac.authorization.k8s.io"}

ListedVersions(crd) == {crd.Versions[i].Name : i \in 1..Len(crd.Versions)}

\* the pending descriptors of component c that have the group and kind of
\* the definition and one of its listed versions, but not the one compared
OtherVersionsPending(c, crd) ==
    {d \in c.pendingWatches :
        /\ d.Group = crd.Group /\ d.Kind = crd.Kind
        /\ d.Version \in ListedVersions(crd)
        /\ d # PresentedTuple(crd)}

----------------------------------------------------------------------------
(* Properties of the rendered set (specification SpecRender) *)

\* the engine's output for the Render call recorded in r
EngineOutputOf(r) == EngineRender(components[r.name].Chart, r.values)

\* the Render call recorded in r got as far as the engine, which succeeded
EngineRan(r) ==
    /\ r.op = "Render"
    /\ r.name \in DOMAIN components
    /\ r.invoked = RenderSteps
    /\ ~EngineFails(components[r.name].Chart)

\* an entry of the engine's output for r that is (is not) filtered out holds
\* text that is not well-formed
MalformedSurvivor(r) == \E e \in EngineOutputOf(r) : ~NotDeployable(e.file) /\ ~e.yaml
MalformedExcluded(r) == \E e \in EngineOutputOf(r) : NotDeployable(e.file) /\ ~e.yaml

\* what C34 says of one Render call
AllOrNothing(r) ==
    /\ r.op = "Render" /\ r.err # NoErr => r.manifests = NilManifests
    /\ EngineRan(r) =>
         /\ MalformedSurvivor(r) => r.err # NoErr /\ r.manifests = NilManifests
         /\ ~MalformedSurvivor(r) =>
              /\ r.err = NoErr
              /\ ~r.manifests.isNil
              /\ {f.file : f \in r.manifests.files}
                   = {e.file : e \in {x \in EngineOutputOf(r) : ~NotDeployable(x.file)}}

\* C34: a Render in which an entry that survives the filter is not
\* well-formed returns a nil manifest set and an error, never some of the
\* entries; an entry that is filtered out (note, test, hook) is not checked,
\* so a Render whose surviving entries are all well-formed succeeds with all
\* of them whatever the filtered entries hold.
RenderAllOrNothing == AllOrNothing(last) /\ AllOrNothing(prev)

\* a Render that succeeded although a filtered entry was malformed, followed
\* by one that returned nothing because one of two surviving entries was
RenderAllOrNothingWitness ==
    /\ EngineRan(prev) /\ MalformedExcluded(prev) /\ prev.err = NoErr
    /\ EngineRan(last) /\ MalformedSurvivor(last) /\ last.manifests = NilManifests
    /\ \E e \in EngineOutputOf(last) : ~NotDeployable(e.file) /\ e.yaml

----------------------------------------------------------------------------
(* The reconciler: src/internal/controller/components/langfuse/             *)
(* langfuse_controller.go (specification SpecReconcile).  One action is one *)
(* Reconcile pass.  What the API server answers is an input of the pass:    *)
(* the Get of the resource, the order in which the manifest map is ranged   *)
(* over, the manifest at which applyManifest fails (if any), and whether    *)
(* the status update goes through.                                          *)

\* the name the reconciler renders under (it is fixed in the code)
ReconciledName == "c1"

\* r.Get(ctx, req.NamespacedName, &langfuse)
GetOutcomes == {"ok", "notfound", "error"}

Condition(status, reason) == [status |-> status, reason |-> reason]

\* updateStatusCondition(ctx, langfuse, condition): the resource in the
\* cluster afterwards.  The condition is set on the reconciler's copy; an
\* error of r.Status().Update is logged and not returned.
updateStatusCondition(cl, condition, updateOk) ==
    IF updateOk THEN [cl EXCEPT !.ready = condition] ELSE cl

\* the pass from the answer of Render on.  out is what Render returned,
\* order the range order of the manifests, failAt the position in it at
\* which applyManifest returns an error (0: none fails).  The result is the
\* record of the pass: what it returned, what it applied, the condition it
\* set on its copy of the resource, which call failed, and the resource in
\* the cluster afterwards.
ReconcileOutcome(out, cl, get, order, failAt, updateOk) ==
    LET none == [op |-> "Reconcile", get |-> get, err |-> NoErr, cluster |-> cl,
                 rendered |-> NilManifests, applied |-> {}, condition |-> NoCondition,
                 render |-> NoErr, apply |-> NoErr, updated |-> TRUE, before |-> cl]
        all == {order[i] : i \in 1..Len(order)}
        done == {order[i] : i \in 1..(failAt - 1)}
    IN IF get = "notfound" THEN none
       ELSE IF get = "error" THEN [none EXCEPT !.err = Err("Get failed", {})]
       ELSE IF out.err # NoErr
         THEN [none EXCEPT
                 !.err = out.err, !.render = out.err,
                 !.condition = Condition("False", "ChartRenderError"),
                 !.cluster = updateStatusCondition(cl, Condition("False", "ChartRenderError"),
                                                   updateOk),
                 !.updated = updateOk]
       ELSE IF failAt > 0
         THEN [none EXCEPT
                 !.err = Err("failed to apply manifest", {order[failAt]}),
                 !.apply = Err("failed to apply manifest", {order[failAt]}),
                 !.rendered = out.manifests,
                 !.applied = done,
                 !.condition = Condition("False", "ManifestApplyError"),
                 !.cluster = updateStatusCondition(
                                 [cl EXCEPT !.applied = @ \cup done],
                                 Condition("False", "ManifestApplyError"), updateOk),
                 !.updated = updateOk]
       ELSE [none EXCEPT
               !.rendered = out.manifests,
               !.applied = all,
               !.condition = Condition("True", "ResourcesApplied"),
               !.cluster = updateStatusCondition(
                               [cl EXCEPT !.applied = @ \cup all],
                               Condition("True", "ResourcesApplied"), updateOk),
               !.updated = updateOk]

\* the file names of a manifest set
FilesOf(manifests) == {f.file : f \in manifests.files}

\* the heap a pass leaves: Render is not reached unless the Get succeeds
HeapAfterPass(get, h, out) == IF get = "ok" THEN Persistent(out.h, DOMAIN h) ELSE h

\* r.Reconcile(ctx, req)
LangfuseReconcile(spec, get, updateOk) ==
    /\ last = NoCall
    /\ \E out \in {RenderOutcome(components, heap, ReconciledName, spec, "")} :
         \E order \in Orders(FilesOf(out.manifests)) :
           \E failAt \in 0..Len(order) :
             \E pass \in {ReconcileOutcome(out, cluster, get, order, failAt, updateOk)} :
                /\ cluster' = pass.cluster
                /\ heap' = HeapAfterPass(get, heap, out)
                /\ last' = pass
    /\ UNCHANGED <<components, loaded, prev, th, crashed, ctrl, activated, crds, phase, locks>>

ReconcileInit ==
    /\ \E cfg1, cfg2 \in StartupConfigs :
         LET r == Startup(cfg1, cfg2)
         IN /\ components = r.comps
            /\ heap = r.h
            /\ loaded = [n \in DOMAIN r.comps |-> TreesOf(r.h, r.comps[n])]
    /\ last = NoCall
    /\ prev = NoCall
    /\ th = [w \in Workers |-> IdleWorker]
    /\ crashed = FALSE
    /\ NoOperator

ReconcileNext ==
    \/ \E spec \in ComponentSpecs, get \in GetOutcomes, updateOk \in BOOLEAN :
         LangfuseReconcile(spec, get, updateOk)
    \/ Return

SpecReconcile == ReconcileInit /\ [][ReconcileNext]_vars

----------------------------------------------------------------------------
(* Properties of the reconciler (specification SpecReconcile) *)

\* a pass that found the resource has returned
PassDone == last.op = "Reconcile" /\ last.get = "ok"

\* C35: a pass swallows no failure.  When Render fails the pass applies no
\* manifest, the resource's Ready condition is False with reason
\* ChartRenderError, and the error is returned; when applying a manifest
\* fails the pass applies no further manifest, Ready is False with reason
\* ManifestApplyError, and the error is returned; the resource's Ready
\* condition is True only after a pass that applied every manifest it
\* rendered; and a pass in which any call failed returns an error.
PassReportsFailure ==
    PassDone =>
      /\ last.render # NoErr =>
           /\ last.applied = {} /\ cluster.applied = last.before.applied
           /\ last.err = last.render
           /\ cluster.ready = Condition("False", "ChartRenderError")
      /\ last.apply # NoErr =>
           /\ last.applied \subseteq FilesOf(last.rendered)
           /\ last.applied # FilesOf(last.rendered)
           /\ last.err = last.apply
           /\ cluster.ready = Condition("False", "ManifestApplyError")
      /\ cluster.ready.status = "True" =>
           /\ last.err = NoErr
           /\ last.applied = FilesOf(last.rendered)
      /\ (last.render # NoErr \/ last.apply # NoErr \/ ~last.updated) => last.err # NoErr

----------------------------------------------------------------------------
(* LoadChart on a component built directly, as the tests of                 *)
(* src/internal/controller/helmregistry/loader_test.go build it             *)
(* (specification SpecLoader): each test makes a new component and loads a  *)
(* chart into it.                                                           *)

\* the component a BeforeEach makes: nothing loaded
FreshComponent ==
    [ChartName |-> "test-chart", ValuesGenerator |-> NoGen, Watches |-> <<>>,
     Chart |-> NoChart, Values |-> NoObj, RHOAIValues |-> NoObj, pendingWatches |-> {}]

\* the heap without the trees of the component kept under n
Forget(h, n) == [r \in {q \in DOMAIN h : q.o \notin {DOwner(n), OOwner(n)}} |-> h[r]]

\* a test: a new component, kept under n, and component.LoadChart(chartPath)
LoadChartCall(n, chartPath) ==
    /\ last = NoCall
    /\ LET ld == LoadChart(chartPath, n)
           c == IF ld.err = NoErr
                  THEN [FreshComponent EXCEPT !.Chart = ld.Chart, !.Values = ld.Values,
                                              !.RHOAIValues = ld.RHOAIValues]
                  ELSE FreshComponent
           comps == [m \in DOMAIN components \cup {n} |-> IF m = n THEN c ELSE components[m]]
           h == HeapAdd(Forget(heap, n), ld.objs)
       IN /\ components' = comps
          /\ heap' = h
          /\ loaded' = [m \in DOMAIN comps |-> TreesOf(h, comps[m])]
          /\ last' = [op |-> "LoadChart", name |-> n, chartPath |-> chartPath,
                      err |-> ld.err, tried |-> ld.tried, from |-> ld.from]
    /\ UNCHANGED <<prev, th, crashed, opVars>>

LoaderNext ==
    \/ \E n \in Names, chartPath \in ChartNames : LoadChartCall(n, chartPath)
    \/ Return

SpecLoader == Init /\ [][LoaderNext]_vars

----------------------------------------------------------------------------
(* Properties of LoadChart (specification SpecLoader) *)

\* C36: LoadChart looks for the packaged chart charts/<ref>.tgz first and
\* for the directory charts/<ref> second, only when the first is not there;
\* it fails only when neither is; the error then names both paths, and with
\* them the reference; and the component is left without chart, chart
\* values and overrides.
LoadChartTriesBoth ==
    last.op = "LoadChart" =>
      LET ref == last.chartPath
          c == components[last.name]
      IN /\ last.tried[1] = <<"charts", "/", ref, ".tgz">>
         /\ ref \in Packaged =>
              /\ last.err = NoErr /\ last.from = "tgz" /\ Len(last.tried) = 1
         /\ (ref \notin Packaged /\ ref \in Unpacked) =>
              /\ last.err = NoErr /\ last.from = "dir"
              /\ last.tried = <<<<"charts", "/", ref, ".tgz">>, <<"charts", "/", ref>>>>
         /\ last.err # NoErr <=> ref \notin Packaged \cup Unpacked
         /\ last.err # NoErr =>
              /\ last.tried = <<<<"charts", "/", ref, ".tgz">>, <<"charts", "/", ref>>>>
              /\ {last.tried[1], last.tried[2]} \subseteq last.err.mentions
              /\ \A q \in {last.tried[1], last.tried[2]} : \E i \in 1..Len(q) : q[i] = ref
              /\ c.Chart = NoChart /\ c.Values = NoObj /\ c.RHOAIValues = NoObj
              /\ loaded[last.name] = [D |-> {}, O |-> {}]
         /\ last.err = NoErr => c.Chart = ref /\ c.Values # NoObj

\* a load has failed after one that found its chart both packaged and
\* unpacked and took the packaged one
LoadChartTriesBothWitness ==
    /\ last.op = "LoadChart" /\ last.err # NoErr
    /\ \E n \in DOMAIN components :
         /\ n # last.name
         /\ components[n].Chart \in Packaged \cap Unpacked

----------------------------------------------------------------------------
(* The Langfuse value generator of                                          *)
(* src/internal/controller/helmregistry/langfuse_values_test.go             *)
(* (specification SpecValues): callers hand it a component spec and merge   *)
(* the tree it returns onto the Langfuse chart, whose values.yaml defaults  *)
(* langfuse.persistence.size and whose values.rhoai.yaml may override it.   *)

\* storage sizes in Gi; the empty string is 0
EmptySize == 0
StorageSizes == {EmptySize, 20, 50}

\* a Go bool as a scalar
Bool(b) == IF b THEN 1 ELSE 0

\* what the generator is handed: a *DSCLangfuse, or a value of another type
\* (a string, as the tests hand it, or nil)
GeneratorArgs ==
    [type : {"*DSCLangfuse"}, ExperimentalFeaturesEnabled : BOOLEAN,
     TracingEnabled : BOOLEAN, StorageSize : StorageSizes, DevFlags : 0..1]
    \cup
    [type : {"string", "nil"}, ExperimentalFeaturesEnabled : {FALSE},
     TracingEnabled : {FALSE}, StorageSize : {EmptySize}, DevFlags : {0}]

SizePath == <<"langfuse", "persistence", "size">>

\* a generator that takes any argument for an empty spec
LangfuseValuesFromSpecLenient(spec) ==
    LET f == IF spec.type = "*DSCLangfuse" THEN spec
             ELSE [spec EXCEPT !.type = "*DSCLangfuse"]
    IN [err |-> NoErr, isNil |-> FALSE,
        tree |-> { EM(<<"langfuse">>),
                   EM(<<"langfuse", "features">>),
                   ES(<<"langfuse", "features", "experimentalEnabled">>,
                      Bool(f.ExperimentalFeaturesEnabled)),
                   ES(<<"langfuse", "features", "tracingEnabled">>, Bool(f.TracingEnabled)),
                   EM(<<"langfuse", "persistence">>),
                   ES(SizePath, f.StorageSize) }]

\* LangfuseValuesFromSpec(spec): the type assertion, then the map literal;
\* the loop over DevFlags.Manifests adds nothing
LangfuseValuesFromSpec(spec) ==
    IF spec.type # "*DSCLangfuse"
      THEN [err |-> Err("expected *componentsv1alpha1.DSCLangfuse", {spec.type}),
            isNil |-> TRUE, tree |-> {}]
      ELSE [err |-> NoErr, isNil |-> FALSE,
            tree |-> { EM(<<"langfuse">>),
                       EM(<<"langfuse", "features">>),
                       ES(<<"langfuse", "features", "experimentalEnabled">>,
                          Bool(spec.ExperimentalFeaturesEnabled)),
                       ES(<<"langfuse", "features", "tracingEnabled">>,
                          Bool(spec.TracingEnabled)),
                       EM(<<"langfuse", "persistence">>),
                       ES(SizePath, spec.StorageSize) }]

LangfuseName == "langfuse"

\* values.yaml of the Langfuse chart: the default size is 10Gi
LangfuseChartValues ==
    { EM(<<"langfuse">>), EM(<<"langfuse", "persistence">>), ES(SizePath, 10),
      EM(<<"langfuse", "features">>),
      ES(<<"langfuse", "features", "tracingEnabled">>, 0) }

\* values.rhoai.yaml of the Langfuse chart: absent, or the platform's size
LangfuseRHOAIValues ==
    { {}, { EM(<<"langfuse">>), EM(<<"langfuse", "persistence">>), ES(SizePath, 30) } }

\* the loaded Langfuse component
LangfuseComponent(O) ==
    [ChartName |-> LangfuseName, ValuesGenerator |-> "LangfuseValuesFromSpec",
     Watches |-> <<>>, Chart |-> LangfuseName,
     Values |-> Obj(DOwner(LangfuseName), <<>>),
     RHOAIValues |-> IF O = {} THEN NoObj ELSE Obj(OOwner(LangfuseName), <<>>),
     pendingWatches |-> {}]

ValuesInit ==
    /\ \E O \in LangfuseRHOAIValues :
         /\ components = [n \in {LangfuseName} |-> LangfuseComponent(O)]
         /\ heap = HeapAdd(LoadTree(LangfuseChartValues, DOwner(LangfuseName)),
                           IF O = {} THEN <<>> ELSE LoadTree(O, OOwner(LangfuseName)))
         /\ loaded = [n \in {LangfuseName} |-> [D |-> LangfuseChartValues, O |-> O]]
    /\ last = NoCall
    /\ prev = NoCall
    /\ th = [w \in Workers |-> IdleWorker]
    /\ crashed = FALSE
    /\ NoOperator

\* componentValues, err := LangfuseValuesFromSpec(spec), and on success
\* component.MergeValues(componentValues)
Generate(spec) ==
    /\ last = NoCall
    /\ \E g \in {LangfuseValuesFromSpec(spec)} :
         LET c == components[LangfuseName]
             cv == Obj(COwner(""), <<>>)
             h0 == HeapAdd(heap, LoadTree(g.tree, COwner("")))
             m == MergeValues(h0, c, cv)
         IN IF g.err = NoErr
              THEN /\ last' = [op |-> "LangfuseValuesFromSpec", spec |-> spec,
                               err |-> g.err, isNil |-> g.isNil, tree |-> g.tree,
                               D |-> Flat(heap, c.Values), O |-> Flat(heap, c.RHOAIValues),
                               merged |-> Flat(m.h, m.ref)]
                   /\ heap' = Persistent(m.h, DOMAIN heap)
              ELSE /\ last' = [op |-> "LangfuseValuesFromSpec", spec |-> spec,
                               err |-> g.err, isNil |-> g.isNil, tree |-> g.tree,
                               D |-> Flat(heap, c.Values), O |-> Flat(heap, c.RHOAIValues),
                               merged |-> {}]
                   /\ heap' = heap
    /\ UNCHANGED <<components, loaded, prev, th, crashed, opVars>>

ValuesNext ==
    \/ \E spec \in GeneratorArgs : Generate(spec)
    \/ Return
    \/ Keep

SpecValues == ValuesInit /\ [][ValuesNext]_vars

----------------------------------------------------------------------------
(* Properties of the Langfuse value generator (specification SpecValues) *)

Generated(r) == r.op = "LangfuseValuesFromSpec"

\* the size the chart and the platform give: the override where there is
\* one, the chart default otherwise
DefaultSize(r) == IF Has(r.O, SizePath) THEN Val(r.O, SizePath) ELSE Val(r.D, SizePath)

\* C37: the generator sets langfuse.persistence.size only when the spec's
\* storage size is not empty; with an empty storage size the tree it returns
\* has no persistence entry, and the merged tree keeps the chart's or the
\* platform's size.
EmptySizeKeepsDefault ==
    (Generated(last) /\ last.err = NoErr) =>
      /\ Has(last.tree, SizePath) <=> last.spec.StorageSize # EmptySize
      /\ last.spec.StorageSize = EmptySize =>
           /\ ~Has(last.tree, <<"langfuse", "persistence">>)
           /\ Val(last.merged, SizePath) = DefaultSize(last)

----------------------------------------------------------------------------
(* MergeValues on components built directly, with and without a chart       *)
(* (specification SpecIdentity): the components of SpecMerge, and one whose *)
(* Chart is nil, as LoadChart leaves it when it fails.                      *)

\* &HelmManagedComponent{ChartName: "test-chart"}
ChartlessComponent ==
    [TestComponent EXCEPT !.Chart = NoChart, !.Values = NoObj, !.RHOAIValues = NoObj]

ChartlessInit ==
    /\ components = [n \in {TestName} |-> ChartlessComponent]
    /\ heap = <<>>
    /\ loaded = [n \in {TestName} |-> [D |-> {}, O |-> {}]]
    /\ last = NoCall
    /\ prev = NoCall
    /\ th = [w \in Workers |-> IdleWorker]
    /\ crashed = FALSE
    /\ NoOperator

IdentityInit == MergeInit \/ ChartlessInit

SpecIdentity == IdentityInit /\ [][MergeNext]_vars

----------------------------------------------------------------------------
(* Properties of the merge with empty trees (specification SpecIdentity) *)

\* C39: with D and O the chart defaults and the platform overrides the
\* component holds when MergeValues is called, a merge with no overrides
\* and no component values returns D, a merge with no component values
\* returns the fold of O onto D, and a merge with no overrides returns the
\* fold of the component values onto D; a component without a chart gets
\* its component values back unchanged.
MergeIdentities ==
    MergeDone =>
      LET c == components[TestName]
      IN /\ c.Chart = NoChart => last.res = last.C
         /\ c.Chart # NoChart =>
              /\ (last.O = {} /\ last.C = {}) => last.res = last.D
              /\ last.C = {} => last.res = FoldOnto(last.D, last.O)
              /\ last.O = {} => last.res = FoldOnto(last.D, last.C)

\* a merge with no component values has returned a tree that is neither
\* the chart defaults nor the platform overrides it was called with
MergeIdentitiesWitness ==
    /\ MergeDone
    /\ components[TestName].Chart # NoChart
    /\ last.C = {}
    /\ last.O # {}
    /\ last.res \notin {last.D, last.O}
    /\ last.res = FoldOnto(last.D, last.O)

====
